---- MODULE Spec2Model ----
(***************************************************************************)
(* Transcript acquisition engine of youtube-intel-scan.                    *)
(*                                                                         *)
(*   ChainSpec    the strategy chains: client fetchTranscriptWithFallbacks *)
(*                and the server route POST /api/videos/:id/transcript     *)
(*   LimiterSpec  waitForProxyRateLimit under overlapping callers          *)
(*                (LimiterLiveSpec: with timers that fire)                 *)
(*   CacheSpec    proxyCache, getCachedResponse, setCachedResponse and the *)
(*                cached proxy endpoints                                   *)
(*   RetrySpec    fetchWithRetry with waitForRateLimit and getRetryDelay   *)
(*                (RetryLiveSpec: with a network that answers)             *)
(*   RelaySpec    the retry loops of the relay functions: the Netlify edge *)
(*                function and the two Netlify functions                   *)
(*   SelectorSpec selectBestCaptionTrack on its own                        *)
(*   ResolverSpec extractCaptionTracks (server and client) on its own      *)
(*   ParserSpec   parseTranscriptXml (server and client) on its own        *)
(*                                                                         *)
(* Time is in milliseconds.  Strings that the code indexes (language       *)
(* codes) are sequences of one-character strings.                          *)
(***************************************************************************)
EXTENDS Integers, Sequences, FiniteSets, TLC

VARIABLES
    \* ---- strategy chain (one request at a time) ----
    chainSide,        \* "client" | "server": which chain serves the request
    cloudflareUrl,    \* process.env.CLOUDFLARE_WORKER_URL is set
    netlifyUrl,       \* process.env.NETLIFY_FUNCTION_URL is set
    preferred,        \* preferredLanguages of the request
    chainPc,          \* "idle" | "running" | "respond" | "done"
    chainIdx,         \* 1-based index of the next strategy to attempt
    chainLog,         \* strategies attempted so far, with what each gave
    result,           \* the chain's `result` variable (server) / return value
    lastError,        \* client: `lastError`
    outcome,          \* what the caller receives
    transportCalls,   \* network calls issued for the request so far
    transcripts,      \* storage: the stored transcripts
    hasTranscript,    \* storage: video.hasTranscript ("unset" | TRUE | FALSE)
    chosenTrack,      \* `selectedTrack` of the strategy that ran last, if it chose one
    \* ---- rate limiter ----
    clock,            \* Date.now(), counted from the load of the module
    proxyRateLimiter, \* server: [lastRequestTime, requestCount, resetTime]
    callers,          \* per call of waitForProxyRateLimit: [pc, now, wake]
    lastGap,          \* time between the two most recent passes
    winStart,         \* start of the current run of passes less than 60 s long
    winPasses,        \* number of passes since winStart
    \* ---- response cache and the cached proxy endpoints ----
    proxyCache,       \* the Map, in insertion order: [key, data, timestamp, seq, read]
    nextSeq,          \* number of the next key to be inserted
    reqs,             \* per request slot: [pc, key, within]
    storedAt,         \* per key: when a request last cached its payload, or Never
    lastOp,           \* what the most recent step of a request did
    served,           \* number of requests that have arrived
    longTicks,        \* number of long idle periods so far
    \* ---- fetchWithRetry (client), one call ----
    retryPc,          \* "idle" | "limit" | "fetch" | "backoff" | "returned" | "thrown"
    attempt,          \* the loop variable
    lastRequestTime,  \* client: time of the last request let through
    retryWake,        \* when the pending sleep ends
    retryError,       \* `lastError`
    retryLog,         \* per attempt made: how it ended and the wait that followed
    retryResult,      \* what the call returned or threw
    latencies,        \* number of slow network answers so far
    \* ---- relay functions (edge function, Netlify functions), one request ----
    relayKind,        \* "edge" | "function" | "innertube": the handler serving it
    relayProxies,     \* proxies.length (innertube handler)
    relayLangs,       \* the `languages` parameter, split at the commas
    relayPc,          \* "idle" | "try" | "sleep" | "done"
    relayAttempt,     \* the loop variable
    relayWake,        \* when the pending sleep ends
    relayError,       \* `lastError`
    relayLog,         \* per attempt made: how it ended and the wait that followed
    relayResponse,    \* the response of the handler
    relayPast,        \* per earlier request: the proxy its last attempt used
    \* ---- the pure functions, one call each ----
    selTracks,        \* selectBestCaptionTrack: `tracks`
    selLangs,         \* selectBestCaptionTrack: `preferredLanguages`
    selected,         \* selectBestCaptionTrack: the value returned
    payload,          \* extractCaptionTracks: what the text given to it holds
    serverTracks,     \* extractCaptionTracks (server): [done, tracks]
    clientTracks,     \* extractCaptionTracks (client): [done, tracks]
    transcriptXml,    \* parseTranscriptXml: the timed text given to it
    serverSnippets,   \* parseTranscriptXml (server): [done, snippets]
    clientSnippets,   \* parseTranscriptXml (client): [done, snippets]
    \* ---- decodeHtmlEntities, one call each ----
    literal,          \* the text that was escaped
    serverDecoded,    \* decodeHtmlEntities (server): [done, text]
    clientDecoded,    \* decodeHtmlEntities (client): [done, text]
    \* ---- the two transcript routes, requests for one video ----
    handlers,         \* per request in flight: [pc, route, id, found, transport, wrote, response]
    storeArrivals,    \* number of requests that have arrived
    \* ---- the transcript proxy and the URL it is asked to fetch ----
    proxyAnswer,      \* last request answered: [side, url, status, upstream, untouched]
    upstreamUrls,     \* the URLs requested upstream so far
    proxyServed       \* number of requests answered

chainVars == <<chainSide, cloudflareUrl, netlifyUrl, preferred, chainPc, chainIdx,
               chainLog, result, lastError, outcome, transportCalls,
               transcripts, hasTranscript, chosenTrack>>

limiterVars == <<clock, proxyRateLimiter, callers, lastGap, winStart, winPasses>>

cacheVars == <<proxyCache, nextSeq, reqs, storedAt, lastOp, served, longTicks>>

retryVars == <<retryPc, attempt, lastRequestTime, retryWake, retryError, retryLog,
               retryResult, latencies>>

relayVars == <<relayKind, relayProxies, relayLangs, relayPc, relayAttempt, relayWake,
               relayError, relayLog, relayResponse, relayPast>>

pureVars == <<selTracks, selLangs, selected, payload, serverTracks, clientTracks,
              transcriptXml, serverSnippets, clientSnippets>>

entityVars == <<literal, serverDecoded, clientDecoded>>

storeVars == <<handlers, storeArrivals>>

guardVars == <<proxyAnswer, upstreamUrls, proxyServed>>

restVars == <<entityVars, storeVars, guardVars>>

vars == <<chainVars, limiterVars, cacheVars, retryVars, relayVars, pureVars, restVars>>

ChainOnly == UNCHANGED <<limiterVars, cacheVars, retryVars, relayVars, pureVars, restVars>>

LimiterOnly == UNCHANGED <<chainVars, cacheVars, retryVars, relayVars, pureVars, restVars>>

CacheOnly == UNCHANGED <<chainVars, retryVars, relayVars, pureVars, restVars>>

NoValue == [none |-> TRUE]

HasField(r, f) == f \in DOMAIN r

(***************************************************************************)
(* Caption tracks and the Selector                                         *)
(***************************************************************************)
En   == <<"e", "n">>
Es   == <<"e", "s">>
EnUS == <<"e", "n", "-", "U", "S">>

EnManual == [baseUrl |-> "u-en",   name |-> "English", languageCode |-> En,   kind |-> "none"]
EsAsr    == [baseUrl |-> "u-es",   name |-> "Spanish", languageCode |-> Es,   kind |-> "asr"]
EnUSAsr  == [baseUrl |-> "u-enus", name |-> "",        languageCode |-> EnUS, kind |-> "asr"]

TrackLists == { <<>>, <<EnManual>>, <<EsAsr>>, <<EsAsr, EnManual>>, <<EnUSAsr, EsAsr>> }

PreferredLists == { <<En>>, <<En, Es>> }

\* String.prototype.startsWith
StartsWith(code, lang) ==
    /\ Len(lang) <= Len(code)
    /\ SubSeq(code, 1, Len(lang)) = lang

\* least element of a non-empty set of integers
MinOf(S) == CHOOSE x \in S : \A y \in S : x <= y

\* tracks.find(t => t.languageCode.startsWith(lang) && (t.kind === 'asr') === wantAsr)
FindLang(tracks, lang, wantAsr) ==
    LET hits == { i \in 1..Len(tracks) :
                    /\ StartsWith(tracks[i].languageCode, lang)
                    /\ (tracks[i].kind = "asr") = wantAsr }
    IN  IF hits = {} THEN NoValue ELSE tracks[MinOf(hits)]

\* tracks.find(t => t.kind !== 'asr')
FindManual(tracks) ==
    LET hits == { i \in 1..Len(tracks) : tracks[i].kind # "asr" }
    IN  IF hits = {} THEN NoValue ELSE tracks[MinOf(hits)]

\* one `for (const lang of preferredLanguages)` loop of selectBestCaptionTrack
RECURSIVE FindPreferred(_, _, _, _)
FindPreferred(tracks, langs, i, wantAsr) ==
    IF i > Len(langs) THEN NoValue
    ELSE LET hit == FindLang(tracks, langs[i], wantAsr)
         IN  IF hit # NoValue THEN hit
             ELSE FindPreferred(tracks, langs, i + 1, wantAsr)

\* mutant: one loop over the preferred codes, which takes for each code its
\* manual track or else its generated track
selectLanguageFirst(tracks, preferredLanguages) ==
    LET hits == { j \in 1..Len(preferredLanguages) :
                    \/ FindLang(tracks, preferredLanguages[j], FALSE) # NoValue
                    \/ FindLang(tracks, preferredLanguages[j], TRUE) # NoValue }
        lang      == preferredLanguages[MinOf(hits)]
        anyManual == FindManual(tracks)
    IN  IF hits # {}
        THEN (IF FindLang(tracks, lang, FALSE) # NoValue
              THEN FindLang(tracks, lang, FALSE) ELSE FindLang(tracks, lang, TRUE))
        ELSE IF anyManual # NoValue THEN anyManual
        ELSE IF Len(tracks) > 0 THEN tracks[1]
        ELSE NoValue

selectBestCaptionTrack(tracks, preferredLanguages) ==
    LET manualTrack == FindPreferred(tracks, preferredLanguages, 1, FALSE)
        autoTrack   == FindPreferred(tracks, preferredLanguages, 1, TRUE)
        anyManual   == FindManual(tracks)
    IN  IF manualTrack # NoValue THEN manualTrack
        ELSE IF autoTrack # NoValue THEN autoTrack
        ELSE IF anyManual # NoValue THEN anyManual
        ELSE IF Len(tracks) > 0 THEN tracks[1]
        ELSE NoValue

(***************************************************************************)
(* Snippets and the full text                                              *)
(***************************************************************************)
SnippetLists == { <<>>, <<"hello">>, <<"hello", "world">> }

\* snippets.map(s => s.text).join(' ')
RECURSIVE JoinSpace(_)
JoinSpace(texts) ==
    IF Len(texts) = 0 THEN <<>>
    ELSE IF Len(texts) = 1 THEN <<texts[1]>>
    ELSE <<texts[1], " ">> \o JoinSpace(Tail(texts))

VideoId == "vid"

(***************************************************************************)
(* One scraping strategy: page -> Resolver -> Selector -> timed text ->    *)
(* Parser.  The inputs are what the network and the two parsers gave:      *)
(*   page     "ok" | "http" (response not ok) | "throw" (fetch rejected)   *)
(*   tracks   what extractCaptionTracks found in the page                  *)
(*   xml      "ok" | "http" | "throw" for the timed-text fetch             *)
(*   snippets what parseTranscriptXml found in the timed text              *)
(* The value is [ok, kind, track, snippets, calls]: calls counts the       *)
(* network calls the strategy issued.                                      *)
(***************************************************************************)
Failure(kind, calls) ==
    [ok |-> FALSE, kind |-> kind, track |-> NoValue, snippets |-> <<>>, calls |-> calls]

ScrapeStrategy(page, tracks, langs, xml, snippets) ==
    LET selectedTrack == selectBestCaptionTrack(tracks, langs)
    IN  IF page = "throw" THEN Failure("network-error", 1)
        ELSE IF page = "http" THEN Failure("page-fetch-failed", 1)
        ELSE IF Len(tracks) = 0 THEN Failure("no-captions", 1)
        ELSE IF selectedTrack = NoValue THEN Failure("no-captions-for-languages", 1)
        ELSE IF xml = "throw" THEN Failure("network-error", 2)
        ELSE IF xml = "http" THEN Failure("transcript-fetch-failed", 2)
        ELSE IF Len(snippets) = 0 THEN Failure("empty-transcript", 2)
        ELSE [ok |-> TRUE, kind |-> "success", track |-> selectedTrack,
              snippets |-> snippets, calls |-> 2]

\* selectedTrack.name?.simpleText || selectedTrack.languageCode
LanguageOf(track) == IF track.name # "" THEN track.name ELSE track.languageCode

\* the object fetchTranscriptClientSide / fetchTranscriptViaInnertube return
ClientResult(track, snippets) ==
    [videoId      |-> VideoId,
     language     |-> LanguageOf(track),
     languageCode |-> track.languageCode,
     isGenerated  |-> (track.kind = "asr"),
     snippets     |-> snippets,
     fullText     |-> JoinSpace(snippets)]

\* the object fetchTranscriptViaCloudflare returns
CloudflareResult(track, snippets) ==
    [text         |-> JoinSpace(snippets),
     language     |-> LanguageOf(track),
     languageCode |-> track.languageCode,
     snippets     |-> snippets]

\* the route's wrapping of cloudflareResult into `result`
WrapCloudflare(cf) ==
    [videoId      |-> VideoId,
     text         |-> cf.text,
     language     |-> cf.language,
     languageCode |-> cf.languageCode,
     snippets     |-> cf.snippets]

\* the body a relay function (Netlify function, edge function) or the
\* Python script answers on success: languages is the request's string
RelayResult(langs, snippets) ==
    [videoId      |-> VideoId,
     language     |-> langs,
     languageCode |-> langs[1],
     isGenerated  |-> TRUE,
     snippets     |-> snippets,
     fullText     |-> JoinSpace(snippets)]

\* insertTranscriptSchema.parse: the columns of `transcripts` that are
\* notNull and have no default must be present
RequiredTranscriptFields == {"videoId", "language", "languageCode", "snippets", "fullText"}

SchemaAccepts(r) == RequiredTranscriptFields \subseteq DOMAIN r

\* storage.createTranscript
StoredTranscript(r) ==
    [videoId      |-> r.videoId,
     language     |-> r.language,
     languageCode |-> r.languageCode,
     isGenerated  |-> IF HasField(r, "isGenerated") THEN r.isGenerated ELSE FALSE,
     snippets     |-> r.snippets,
     fullText     |-> r.fullText]

ClientMethods == <<"client-side", "innertube", "youtube-api">>

NetOutcomes == {"ok", "http", "throw"}

(***************************************************************************)
(* The strategy chains                                                     *)
(***************************************************************************)
ChainInit ==
    /\ chainSide = "client"
    /\ cloudflareUrl \in BOOLEAN
    /\ netlifyUrl \in BOOLEAN
    /\ preferred = <<En>>
    /\ chainPc = "idle"
    /\ chainIdx = 1
    /\ chainLog = <<>>
    /\ result = NoValue
    /\ lastError = NoValue
    /\ outcome = NoValue
    /\ transportCalls = 0
    /\ transcripts = {}
    /\ hasTranscript = "unset"
    /\ chosenTrack = NoValue

LogEntry(strategy, ok, value) == [strategy |-> strategy, ok |-> ok, value |-> value]

\* A request enters fetchTranscriptWithFallbacks (client) or the route
\* POST /api/videos/:id/transcript (server).  The route answers at once
\* with the stored transcript when there is one.
ChainStart ==
    /\ chainPc \in {"idle", "done"}
    /\ \E side \in {"client", "server"}, langs \in PreferredLists :
        /\ chainSide' = side
        /\ preferred' = langs
        /\ chainIdx' = 1
        /\ chainLog' = <<>>
        /\ result' = NoValue
        /\ lastError' = NoValue
        /\ transportCalls' = 0
        /\ chosenTrack' = NoValue
        /\ IF side = "server" /\ transcripts # {}
           THEN /\ chainPc' = "done"
                /\ outcome' = [status |-> "200",
                               body |-> CHOOSE t \in transcripts : t.videoId = VideoId]
           ELSE /\ chainPc' = IF side = "client" THEN "client"
                              ELSE IF cloudflareUrl THEN "cloudflare"
                              ELSE IF netlifyUrl THEN "netlify"
                              ELSE "python"
                /\ outcome' = NoValue
    /\ UNCHANGED <<cloudflareUrl, netlifyUrl, transcripts, hasTranscript>>
    /\ ChainOnly

\* GET /api/proxy/youtube-captions-api, step 2: the caption the endpoint
\* picks from the list the Data API gave (a track stands for an item:
\* languageCode for snippet.language, kind "asr" for trackKind 'ASR')
SelectCaption(captions, langs) ==
    LET manualHits == { j \in 1..Len(langs) : FindLang(captions, langs[j], FALSE) # NoValue }
        anyHits    == { j \in 1..Len(langs) :
                          \E k \in 1..Len(captions) :
                              StartsWith(captions[k].languageCode, langs[j]) }
        firstOf(l) == captions[MinOf({ k \in 1..Len(captions) :
                                         StartsWith(captions[k].languageCode, l) })]
    IN  IF manualHits # {} THEN FindLang(captions, langs[MinOf(manualHits)], FALSE)
        ELSE IF anyHits # {} THEN firstOf(langs[MinOf(anyHits)])
        ELSE captions[1]

\* mutant: the endpoint downloads the caption's content as well
CaptionsApiBodyWithContent(caption, content) ==
    [videoId      |-> VideoId,
     language     |-> LanguageOf(caption),
     languageCode |-> caption.languageCode,
     isGenerated  |-> (caption.kind = "asr"),
     captionId    |-> caption.baseUrl,
     snippets     |-> content]

\* the `result` the endpoint answers with status 200: metadata of the
\* selected caption; `content`, the text of the caption, is not part of it
CaptionsApiBody(caption, content) ==
    [videoId      |-> VideoId,
     language     |-> LanguageOf(caption),
     languageCode |-> caption.languageCode,
     isGenerated  |-> (caption.kind = "asr"),
     captionId    |-> caption.baseUrl,
     message      |-> "Caption metadata retrieved."]

\* fetchTranscriptViaYouTubeAPI: the endpoint answers an error status when
\* the Data API does or when the video has no captions, and otherwise its
\* body; the client throws unless the body has a non-empty `snippets`
YouTubeAPIStrategy(page, captions, langs, content) ==
    IF page = "throw" THEN Failure("network-error", 1)
    ELSE IF page = "http" \/ Len(captions) = 0 THEN Failure("api-error", 1)
    ELSE LET caption == SelectCaption(captions, langs)
             data    == CaptionsApiBody(caption, content)
         IN  IF ~HasField(data, "snippets") \/ Len(data.snippets) = 0
             THEN Failure("no-transcript-data", 1)
             ELSE [ok |-> TRUE, kind |-> "success", track |-> caption,
                   snippets |-> data.snippets, calls |-> 1]

\* what the method at index i of `methods` does with the network's answers
ClientMethodOutcome(i, page, tracks, langs, xml, snippets) ==
    IF ClientMethods[i] = "youtube-api"
    THEN YouTubeAPIStrategy(page, tracks, langs, snippets)
    ELSE ScrapeStrategy(page, tracks, langs, xml, snippets)

\* the error a failed method throws: its message names what failed
ErrorOf(strategy, o) == [by |-> strategy, kind |-> o.kind]

\* the failure kinds for which another transport cannot help
TerminalKinds == {"no-captions", "no-captions-for-languages"}

\* mutant: the catch rethrows the terminal kinds
CatchRethrowsTerminal(err) == err.kind \notin TerminalKinds

\* the `catch (error: any)` of the loop: it absorbs every error thrown by
\* a method, whatever its kind
CatchAbsorbs(err) == TRUE

\* mutant: the chain throws its generic error, not the last one
ChainThrowsGeneric(lastErr) == [by |-> "chain", kind |-> "all-methods-failed"]

\* what fetchTranscriptWithFallbacks throws once the loop is over:
\* lastError || new Error('All transcript fetch methods failed')
ChainThrows(lastErr) ==
    IF lastErr # NoValue THEN lastErr
    ELSE [by |-> "chain", kind |-> "all-methods-failed"]

\* One round of the `for (const method of methods)` loop: the method runs
\* to its return or its throw; a throw is logged, kept in lastError, and
\* the loop goes on after sleep(1000); past the last method lastError is
\* thrown.
ClientTry ==
    /\ chainPc = "client"
    /\ \E page \in NetOutcomes, tracks \in TrackLists,
          xml \in NetOutcomes, snippets \in SnippetLists :
        LET name == ClientMethods[chainIdx]
            o    == ClientMethodOutcome(chainIdx, page, tracks, preferred, xml, snippets)
            res  == ClientResult(o.track, o.snippets)
            err  == ErrorOf(name, o)
        IN  /\ transportCalls' = transportCalls + o.calls
            /\ chosenTrack' = o.track
            /\ IF o.ok
               THEN /\ chainLog' = Append(chainLog, LogEntry(name, TRUE, res))
                    /\ result' = res
                    /\ outcome' = [status |-> "returned", body |-> res]
                    /\ chainPc' = "done"
                    /\ UNCHANGED <<lastError, chainIdx>>
               ELSE /\ chainLog' = Append(chainLog, LogEntry(name, FALSE, err))
                    /\ result' = result
                    /\ IF ~CatchAbsorbs(err)
                       THEN /\ chainPc' = "done"
                            /\ outcome' = [status |-> "thrown", body |-> err]
                            /\ UNCHANGED <<lastError, chainIdx>>
                       ELSE /\ lastError' = err
                            /\ chainIdx' = chainIdx + 1
                            /\ IF chainIdx = Len(ClientMethods)
                               THEN /\ chainPc' = "done"
                                    /\ outcome' = [status |-> "thrown",
                                                   body |-> ChainThrows(lastError')]
                               ELSE /\ chainPc' = "client"
                                    /\ outcome' = outcome
    /\ UNCHANGED <<chainSide, cloudflareUrl, netlifyUrl, preferred, transcripts, hasTranscript>>
    /\ ChainOnly

\* fetchTranscriptViaCloudflare and the route's use of what it returns:
\* every failure inside it is logged and turned into null
ServerCloudflare ==
    /\ chainPc = "cloudflare"
    /\ \E page \in NetOutcomes, tracks \in TrackLists,
          xml \in NetOutcomes, snippets \in SnippetLists :
        LET o  == ScrapeStrategy(page, tracks, preferred, xml, snippets)
            cf == CloudflareResult(o.track, o.snippets)
        IN  /\ transportCalls' = transportCalls + o.calls
            /\ chosenTrack' = o.track
            /\ IF o.ok
               THEN /\ chainLog' = Append(chainLog, LogEntry("cloudflare", TRUE, cf))
                    /\ result' = WrapCloudflare(cf)
                    /\ chainPc' = "respond"
               ELSE /\ chainLog' = Append(chainLog,
                                     LogEntry("cloudflare", FALSE, ErrorOf("cloudflare", o)))
                    /\ result' = NoValue
                    /\ chainPc' = IF netlifyUrl THEN "netlify" ELSE "python"
    /\ chainIdx' = chainIdx + 1
    /\ UNCHANGED <<chainSide, cloudflareUrl, netlifyUrl, preferred, lastError, outcome,
                   transcripts, hasTranscript>>
    /\ ChainOnly

\* the Netlify branch of the route: a 200 answer's body becomes `result`,
\* any other answer and any rejection of fetch fall through to Python
ServerNetlify ==
    /\ chainPc = "netlify"
    /\ \E resp \in NetOutcomes, snippets \in SnippetLists :
        LET body == RelayResult(preferred, snippets)
            err  == [by |-> "netlify",
                     kind |-> IF resp = "http" THEN "relay-error" ELSE "network-error"]
        IN  IF resp = "ok"
            THEN /\ chainLog' = Append(chainLog, LogEntry("netlify", TRUE, body))
                 /\ result' = body
                 /\ chainPc' = "respond"
            ELSE /\ chainLog' = Append(chainLog, LogEntry("netlify", FALSE, err))
                 /\ result' = NoValue
                 /\ chainPc' = "python"
    /\ transportCalls' = transportCalls + 1
    /\ chainIdx' = chainIdx + 1
    /\ chosenTrack' = NoValue
    /\ UNCHANGED <<chainSide, cloudflareUrl, netlifyUrl, preferred, lastError, outcome,
                   transcripts, hasTranscript>>
    /\ ChainOnly

\* the Python fallback: runPythonScript resolves with the script's JSON (a
\* transcript or {error}) or rejects, and a rejection reaches the route's
\* catch, which answers 500
ServerPython ==
    /\ chainPc = "python"
    /\ \E py \in {"ok", "error-json", "reject"}, snippets \in {<<"hello">>, <<"hello", "world">>} :
        LET body == RelayResult(preferred, snippets)
            err  == [by |-> "python", kind |-> IF py = "reject" THEN "script-failed"
                                                ELSE "script-error"]
        IN  CASE py = "ok" ->
                    /\ chainLog' = Append(chainLog, LogEntry("python", TRUE, body))
                    /\ result' = body
                    /\ chainPc' = "respond"
                    /\ outcome' = outcome
              [] py = "error-json" ->
                    /\ chainLog' = Append(chainLog, LogEntry("python", FALSE, err))
                    /\ result' = [error |-> err]
                    /\ chainPc' = "respond"
                    /\ outcome' = outcome
              [] py = "reject" ->
                    /\ chainLog' = Append(chainLog, LogEntry("python", FALSE, err))
                    /\ result' = NoValue
                    /\ chainPc' = "done"
                    /\ outcome' = [status |-> "500", body |-> err]
    /\ transportCalls' = transportCalls + 1
    /\ chainIdx' = chainIdx + 1
    /\ chosenTrack' = NoValue
    /\ UNCHANGED <<chainSide, cloudflareUrl, netlifyUrl, preferred, lastError,
                   transcripts, hasTranscript>>
    /\ ChainOnly

\* the end of the route: result.error -> 400 and hasTranscript = false;
\* otherwise validate, store, mark the video, answer the transcript; a
\* validation error reaches the catch, which answers 500
ServerRespond ==
    /\ chainPc = "respond"
    /\ chainPc' = "done"
    /\ IF HasField(result, "error")
       THEN /\ hasTranscript' = FALSE
            /\ outcome' = [status |-> "400", body |-> result.error]
            /\ UNCHANGED transcripts
       ELSE IF ~SchemaAccepts(result)
       THEN /\ outcome' = [status |-> "500", body |-> [by |-> "schema", kind |-> "zod-error"]]
            /\ UNCHANGED <<transcripts, hasTranscript>>
       ELSE /\ transcripts' = transcripts \cup {StoredTranscript(result)}
            /\ hasTranscript' = TRUE
            /\ outcome' = [status |-> "200", body |-> StoredTranscript(result)]
    /\ UNCHANGED <<chainSide, cloudflareUrl, netlifyUrl, preferred, chainIdx, chainLog,
                   result, lastError, transportCalls, chosenTrack>>
    /\ ChainOnly

ChainNext ==
    \/ ChainStart
    \/ ClientTry
    \/ ServerCloudflare
    \/ ServerNetlify
    \/ ServerPython
    \/ ServerRespond


(***************************************************************************)
(* Claims about the strategy chains                                        *)
(***************************************************************************)
\* the strategies of the chain serving the request, in declared order
DeclaredOrder ==
    IF chainSide = "client" THEN ClientMethods
    ELSE (IF cloudflareUrl THEN <<"cloudflare">> ELSE <<>>)
         \o (IF netlifyUrl THEN <<"netlify">> ELSE <<>>)
         \o <<"python">>

ChainRan == chainPc = "done" /\ Len(chainLog) > 0

LastAttempt == chainLog[Len(chainLog)]

\* the text of a strategy's result: fullText, or text for Cloudflare's
TextOf(r) == IF HasField(r, "fullText") THEN r.fullText ELSE r.text

\* the caller received the transcript r of a strategy
OutcomeCarries(r) ==
    /\ outcome.status \in {"returned", "200"}
    /\ outcome.body.language = r.language
    /\ outcome.body.languageCode = r.languageCode
    /\ outcome.body.snippets = r.snippets
    /\ outcome.body.fullText = TextOf(r)

\* strategies are attempted in declared order, one after the failure of
\* the one before, and nothing is attempted after a success
ChainOrder ==
    /\ Len(chainLog) <= Len(DeclaredOrder)
    /\ \A i \in 1..Len(chainLog) : chainLog[i].strategy = DeclaredOrder[i]
    /\ \A i \in 1..(Len(chainLog) - 1) : ~chainLog[i].ok

\* C1: strategies are attempted strictly in declared order, strategy k+1
\* only after strategy k failed, a success ends the chain, and the
\* chain's outcome is then exactly the successful strategy's result.
C1_ChainReturnsWinner ==
    /\ ChainOrder
    /\ (ChainRan /\ LastAttempt.ok) => OutcomeCarries(LastAttempt.value)

IsTerminalFailure(e) == ~e.ok /\ e.value.kind \in TerminalKinds

AllFailed == ChainRan /\ \A i \in 1..Len(chainLog) : ~chainLog[i].ok

MinDelay == 1500
MaxRequestsPerMinute == 20
WindowMs == 60000

\* Date.now() at the load of the module is far from 0, the initial
\* lastRequestTime: on the model's clock, which starts at 0, that is as if
\* the last request were Epoch ms before the load
Epoch == 100000

NumCallers == 2
Callers == 1..NumCallers

\* a call: where it stands, the `now` it read, when its timer fires, and
\* what it has waited for ("none" | "window" | "delay")
IdleCaller == [pc |-> "idle", now |-> 0, wake |-> 0, held |-> "none"]

\* the clock advances in steps of the minimum delay
TickMs == MinDelay

\* calls arrive during the first ArrivalTicks steps of the clock
ArrivalTicks == 42
LastArrival == ArrivalTicks * TickMs

\* no call that has arrived by LastArrival is still waiting at MaxClock
MaxClock == LastArrival + 2 * WindowMs + 2 * MinDelay

\* if (now - resetTime > 60000) { requestCount = 0; resetTime = now }
AfterReset(rl, now) ==
    IF now - rl.resetTime > WindowMs
    THEN [rl EXCEPT !.requestCount = 0, !.resetTime = now]
    ELSE rl

\* lastRequestTime = Date.now(); requestCount++
Passed(rl, t) == [rl EXCEPT !.lastRequestTime = t, !.requestCount = @ + 1]

\* the state after the load of the module
FreshLimiter == [lastRequestTime |-> 0 - Epoch, requestCount |-> 0, resetTime |-> 0]

(***************************************************************************)
(* waitForProxyRateLimit.  A call runs from its entry to its first await,  *)
(* and from the firing of a timer to the next await or to its return;      *)
(* other calls run in between.  Timers fire when their time has come.      *)
(***************************************************************************)
\* requestCount >= maxRequestsPerMinute
OverCeiling(rl) == rl.requestCount >= MaxRequestsPerMinute

\* waitTime = 60000 - (now - resetTime)
WindowWait(rl, now) == WindowMs - (now - rl.resetTime)

\* timeSinceLastRequest < minDelay
TooSoon(rl, now) == now - rl.lastRequestTime < MinDelay

\* waitTime = minDelay - timeSinceLastRequest
DelayWait(rl, now) == MinDelay - (now - rl.lastRequestTime)

\* One more call, made as the one before returns: the call runs the
\* function as written, ceiling wait and minimum-delay wait included, and
\* passes at the clock of the result.
NextCall(st) ==
    LET now  == st.clock
        rl0  == AfterReset(st.rl, now)
        woke == IF OverCeiling(rl0) THEN now + WindowWait(rl0, now) ELSE now
        rl1  == IF OverCeiling(rl0)
                THEN [rl0 EXCEPT !.requestCount = 0, !.resetTime = woke]
                ELSE rl0
        t    == IF TooSoon(rl1, now) THEN woke + DelayWait(rl1, now) ELSE woke
    IN  [rl |-> Passed(rl1, t), clock |-> t]

\* n more calls, each made as the one before returns: the first half of
\* them, then the others (the comparison of the clocks has TLC compute the
\* first half before it goes on)
RECURSIVE Calls(_, _)
Calls(st, n) ==
    IF n = 0 THEN st
    ELSE IF n = 1 THEN NextCall(st)
    ELSE LET half == Calls(st, n \div 2)
         IN  IF half.clock >= st.clock THEN Calls(half, n - n \div 2) ELSE half

\* The limiter and the clock after k calls made one after the other, the
\* first at the load of the module.
AfterCalls(k) == Calls([rl |-> FreshLimiter, clock |-> 0], k)

\* the numbers of earlier calls the model starts from: none, one short of
\* the ceiling, the ceiling
WarmUps == {0, MaxRequestsPerMinute - 1, MaxRequestsPerMinute}

\* the limiter as the earlier calls `st` left it, with no call in flight
LimiterStart(st) ==
    /\ clock = st.clock
    /\ proxyRateLimiter = st.rl
    /\ callers = [c \in Callers |-> IdleCaller]
    /\ lastGap = MinDelay
    /\ winStart = st.rl.resetTime
    /\ winPasses = st.rl.requestCount

LimiterIdle == LimiterStart(AfterCalls(0))

\* the measurements taken when a call passes the limiter at time t
Measure(rl, t) ==
    /\ lastGap' = IF t - rl.lastRequestTime >= MinDelay THEN MinDelay
                  ELSE t - rl.lastRequestTime
    /\ IF t - winStart >= WindowMs
       THEN winStart' = t /\ winPasses' = 1
       ELSE winStart' = winStart /\ winPasses' = winPasses + 1

\* the call returns
Returned(c) == [pc |-> "done", now |-> 0, wake |-> 0, held |-> callers[c].held]

\* the end of the function, from the minimum-delay check: `now` is the
\* value read at the entry of the call (it is not read after this check)
DelayCheck(c, rl, now) ==
    IF TooSoon(rl, now)
    THEN /\ callers' = [callers EXCEPT ![c] =
                          [pc |-> "delayWait", now |-> 0, wake |-> clock + DelayWait(rl, now),
                           held |-> IF callers[c].held = "window" THEN "window" ELSE "delay"]]
         /\ proxyRateLimiter' = rl
         /\ UNCHANGED <<lastGap, winStart, winPasses>>
    ELSE /\ callers' = [callers EXCEPT ![c] = Returned(c)]
         /\ proxyRateLimiter' = Passed(rl, clock)
         /\ Measure(rl, clock)

\* a limiter that turns the call away when the ceiling is reached
RejectOverCeiling(c, rl, now) ==
    [callers EXCEPT ![c] = [pc |-> "rejected", now |-> 0, wake |-> 0, held |-> "none"]]

\* await sleep(waitTime) of the ceiling branch: the call is suspended
\* until the end of the window
HoldForWindow(c, rl, now) ==
    [callers EXCEPT ![c] =
        [pc |-> "windowWait", now |-> now, wake |-> clock + WindowWait(rl, now),
         held |-> "window"]]

\* waitForProxyRateLimit from its entry to its first await or its return
EnterBody(c) ==
    /\ callers[c].pc = "idle"
    /\ LET now == clock
           rl  == AfterReset(proxyRateLimiter, now)
       IN  IF OverCeiling(rl)
           THEN /\ callers' = HoldForWindow(c, rl, now)
                /\ proxyRateLimiter' = rl
                /\ UNCHANGED <<lastGap, winStart, winPasses>>
           ELSE DelayCheck(c, rl, now)

\* a call of waitForProxyRateLimit arrives
Enter(c) ==
    /\ clock <= LastArrival
    /\ EnterBody(c)
    /\ UNCHANGED clock
    /\ LimiterOnly

\* the timer of the ceiling wait fires: the counter and the window start
\* are reset, then the minimum-delay check runs
WakeWindow(c) ==
    /\ callers[c].pc = "windowWait"
    /\ clock >= callers[c].wake
    /\ DelayCheck(c, [proxyRateLimiter EXCEPT !.requestCount = 0, !.resetTime = clock],
                  callers[c].now)
    /\ UNCHANGED clock
    /\ LimiterOnly

\* the timer of the minimum-delay wait fires: the call passes
WakeDelay(c) ==
    /\ callers[c].pc = "delayWait"
    /\ clock >= callers[c].wake
    /\ callers' = [callers EXCEPT ![c] = Returned(c)]
    /\ proxyRateLimiter' = Passed(proxyRateLimiter, clock)
    /\ Measure(proxyRateLimiter, clock)
    /\ UNCHANGED clock
    /\ LimiterOnly

Waiting(c) == callers[c].pc \in {"windowWait", "delayWait"}

\* time passes, up to the next timer; the clock stops once no call can
\* arrive any more and none is waiting
Tick ==
    /\ clock < MaxClock
    /\ clock < LastArrival \/ \E c \in Callers : Waiting(c)
    /\ \A c \in Callers : Waiting(c) => callers[c].wake > clock
    /\ clock' = clock + TickMs
    /\ UNCHANGED <<proxyRateLimiter, callers, lastGap, winStart, winPasses>>
    /\ LimiterOnly

LimiterNext ==
    \/ \E c \in Callers : Enter(c)
    \/ \E c \in Callers : WakeWindow(c)
    \/ \E c \in Callers : WakeDelay(c)
    \/ Tick

\* C4: two calls that pass the limiter one after the other are at least
\* the minimum delay apart
C4_MinDelayBetweenPasses == lastGap >= MinDelay

\* C5: the in-window counter never exceeds the ceiling, and no more than
\* the ceiling's number of calls pass within 60 seconds
C5_CeilingHolds ==
    /\ proxyRateLimiter.requestCount <= MaxRequestsPerMinute
    /\ winPasses <= MaxRequestsPerMinute

\* C6: every call of waitForProxyRateLimit returns: a call suspended
\* because the ceiling was reached, or because the last request was too
\* recent, passes in the end; none is rejected or dropped.
C6_EveryCallReturns ==
    \A c \in Callers : (callers[c].pc # "idle") ~> (callers[c].pc = "done")

\* C6 witness: a call that found the ceiling reached has waited for the
\* window to reset and has returned
C6_Witness ==
    \E c \in Callers : callers[c].pc = "done" /\ callers[c].held = "window"

(***************************************************************************)
(* Response cache: proxyCache, getCachedResponse, setCachedResponse.       *)
(* The Map is a sequence in insertion order; `seq` numbers the insertions  *)
(* of keys (a store to a key that is present is not an insertion).         *)
(***************************************************************************)
CACHE_TTL == 5 * 60 * 1000

CacheLimit == 100

Never == 0 - 1

\* `page:${videoId}` and `transcript:${url}`
PageKey(id) == [kind |-> "page", id |-> id]

TranscriptKey(id) == [kind |-> "transcript", id |-> id]

\* string | null
Null == [isNull |-> TRUE, data |-> ""]

Value(data) == [isNull |-> FALSE, data |-> data]

\* `if (cached)`: null and the empty string are falsy
Truthy(v) == ~v.isNull /\ v.data # ""

\* Map.prototype.has / position of the key in insertion order, 0 if absent
IndexOfKey(cache, key) ==
    IF \E i \in 1..Len(cache) : cache[i].key = key
    THEN CHOOSE i \in 1..Len(cache) : cache[i].key = key
    ELSE 0

\* Map.prototype.delete
Without(cache, i) ==
    IF i = 0 THEN cache
    ELSE SubSeq(cache, 1, i - 1) \o SubSeq(cache, i + 1, Len(cache))

\* an entry that is served up to and including the instant its age is the TTL
FreshInclusive(entry, now) == now - entry.timestamp <= CACHE_TTL

\* Date.now() - cached.timestamp < CACHE_TTL
Fresh(entry, now) == now - entry.timestamp < CACHE_TTL

\* a cache that moves an entry to the end of the order when it is read
getCachedResponseTouching(cache, key, now) ==
    LET i == IndexOfKey(cache, key)
    IN  IF i # 0 /\ Fresh(cache[i], now)
        THEN [value |-> Value(cache[i].data), cache |-> Append(Without(cache, i), cache[i])]
        ELSE [value |-> Null, cache |-> Without(cache, i)]

\* getCachedResponse: the value returned and the Map afterwards
getCachedResponse(cache, key, now) ==
    LET i == IndexOfKey(cache, key)
    IN  IF i # 0 /\ Fresh(cache[i], now)
        THEN [value |-> Value(cache[i].data), cache |-> cache]
        ELSE [value |-> Null, cache |-> Without(cache, i)]

\* mutant: a store never removes an entry
NeverEvicts(cache) == FALSE

\* proxyCache.size > 100
Evicts(cache) == Len(cache) > CacheLimit

\* proxyCache.delete(proxyCache.keys().next().value)
AfterEviction(cache) == IF Evicts(cache) THEN Tail(cache) ELSE cache

\* setCachedResponse: Map.set keeps the place of a key that is present
setCachedResponse(cache, key, data, now, seq) ==
    LET kept == AfterEviction(cache)
        i    == IndexOfKey(kept, key)
    IN  IF i # 0
        THEN [kept EXCEPT ![i] = [@ EXCEPT !.data = data, !.timestamp = now]]
        ELSE Append(kept, [key |-> key, data |-> data, timestamp |-> now, seq |-> seq,
                           read |-> FALSE])

\* the number of the next insertion after a store
SeqAfter(cache, key, seq) ==
    IF IndexOfKey(AfterEviction(cache), key) # 0 THEN seq ELSE seq + 1

Seqs(cache) == {cache[i].seq : i \in 1..Len(cache)}

(***************************************************************************)
(* The cached proxy endpoints GET /api/proxy/youtube-page and              *)
(* GET /api/proxy/youtube-transcript.  A request runs from its arrival to  *)
(* the first await of waitForProxyRateLimit (or to its response, on a      *)
(* cache hit), then through the limiter, then from the end of the upstream *)
(* fetch to its response.                                                  *)
(***************************************************************************)
MaxRequests == 2

MaxLongTicks == 2

\* an idle period between requests
LongTick == CACHE_TTL \div 2

\* the first request comes half a window and one delay after the load of
\* the module
FirstCallAt == WindowMs \div 2 + MinDelay

\* the earlier requests the model starts from: none, or requests for as
\* many videos as fill the cache to its limit, or to one more
Fills == {0, CacheLimit, CacheLimit + 1}

\* a video not among the earlier requests
NewId == CacheLimit + 2

ReqKeys == {PageKey(1), TranscriptKey(NewId)}

\* The limiter and the clock after k earlier requests, made one after the
\* other through waitForProxyRateLimit.
Served(k) == Calls([rl |-> FreshLimiter, clock |-> FirstCallAt], k)

\* the cache after requests for the pages of videos 1..k, made one after
\* the other, each stored as it passes the limiter: stores of up to
\* CacheLimit + 1 different keys append each key and evict none
Filled(k) ==
    [i \in 1..k |-> [key |-> PageKey(i), data |-> "html",
                     timestamp |-> Served(i).clock, seq |-> i, read |-> FALSE]]

ConsentPage == "consent.youtube.com"

\* what the upstream fetch gives: a 200 with a body, a non-ok status, or
\* a rejected promise
UpstreamOutcomes ==
    {[kind |-> "ok", status |-> "200", body |-> b] : b \in {"html", "", ConsentPage}}
        \cup {[kind |-> "status", status |-> "429", body |-> ""],
              [kind |-> "throw", status |-> "500", body |-> ""]}

\* a request slot: `within` tells that the request arrived less than the
\* TTL after an earlier request cached the payload of its key
FreeReq == [pc |-> "free", key |-> PageKey(0), within |-> FALSE]

\* no step of a request yet, or time has passed since
NoOp == [op |-> "none"]

\* the time is less than the TTL after the payload of the key was cached
WithinTtl(key, now) == storedAt[key] # Never /\ now - storedAt[key] < CACHE_TTL

CacheStart(k) ==
    /\ proxyCache = Filled(k)
    /\ nextSeq = k + 1
    /\ reqs = [c \in Callers |-> FreeReq]
    /\ storedAt = [key \in ReqKeys |->
                     IF IndexOfKey(Filled(k), key) # 0
                     THEN Filled(k)[IndexOfKey(Filled(k), key)].timestamp
                     ELSE Never]
    /\ lastOp = NoOp
    /\ served = 0
    /\ longTicks = 0

CacheIdle == CacheStart(0)

limiterState == <<proxyRateLimiter, callers, lastGap, winStart, winPasses>>

\* the entry of a key that has been returned by a lookup is marked
MarkRead(cache, key) ==
    [i \in 1..Len(cache) |->
        IF cache[i].key = key THEN [cache[i] EXCEPT !.read = TRUE] ELSE cache[i]]

\* a request arrives: the cache is looked up; on a truthy value the
\* request is answered from the cache, otherwise it enters the limiter.
\* lastOp: whether the Map held the key, whether its entry had reached the
\* TTL, whether a value was returned, whether the Map holds the key
\* afterwards, whether the request is answered from the cache
Arrive(c, key) ==
    /\ reqs[c].pc = "free"
    /\ \A d \in Callers : d < c => reqs[d].pc # "free"
    /\ served < MaxRequests
    /\ LET got == getCachedResponse(proxyCache, key, clock)
           i   == IndexOfKey(proxyCache, key)
       IN  /\ lastOp' = [op |-> "lookup", key |-> key, found |-> i # 0,
                         expired  |-> i # 0 /\ clock - proxyCache[i].timestamp >= CACHE_TTL,
                         hit      |-> ~got.value.isNull,
                         kept     |-> IndexOfKey(got.cache, key) # 0,
                         answered |-> Truthy(got.value),
                         within   |-> WithinTtl(key, clock)]
           /\ proxyCache' = IF got.value.isNull THEN got.cache
                            ELSE MarkRead(got.cache, key)
           /\ IF Truthy(got.value)
              THEN UNCHANGED <<reqs, limiterState>>
              ELSE /\ reqs' = [reqs EXCEPT ![c] =
                                 [pc |-> "limit", key |-> key,
                                  within |-> WithinTtl(key, clock)]]
                   /\ EnterBody(c)
    /\ served' = served + 1
    /\ UNCHANGED <<clock, nextSeq, storedAt, longTicks>>
    /\ CacheOnly

\* the payload of the upstream response is stored and sent.  lastOp:
\* whether an entry was evicted, the insertion numbers removed, the lowest
\* insertion number held before, whether the first entry had been read
StoreAndSend(c, body) ==
    LET key == reqs[c].key
    IN  /\ proxyCache' = setCachedResponse(proxyCache, key, body, clock, nextSeq)
        /\ nextSeq' = SeqAfter(proxyCache, key, nextSeq)
        /\ storedAt' = [storedAt EXCEPT ![key] = clock]
        /\ lastOp' = [op |-> "store", key |-> key, within |-> reqs[c].within,
                      evicted |-> Evicts(proxyCache),
                      removed |-> Seqs(proxyCache) \ Seqs(proxyCache'),
                      oldest  |-> IF proxyCache = <<>> THEN 0 ELSE MinOf(Seqs(proxyCache)),
                      wasRead |-> proxyCache # <<>> /\ proxyCache[1].read]

\* the upstream outcome is answered without being stored
SendError(c, status) ==
    /\ lastOp' = [op |-> "error", key |-> reqs[c].key, within |-> reqs[c].within]
    /\ UNCHANGED <<proxyCache, nextSeq, storedAt>>

\* the upstream fetch of a request that has passed the limiter ends
Fetched(c, o) ==
    /\ reqs[c].pc = "limit"
    /\ callers[c].pc = "done"
    /\ IF o.kind # "ok" THEN SendError(c, o.status)
       ELSE IF reqs[c].key.kind = "page" /\ o.body = ConsentPage THEN SendError(c, "403")
       ELSE StoreAndSend(c, o.body)
    /\ reqs' = [reqs EXCEPT ![c] = FreeReq]
    /\ callers' = [callers EXCEPT ![c] = IdleCaller]
    /\ UNCHANGED <<clock, proxyRateLimiter, lastGap, winStart, winPasses,
                   served, longTicks>>
    /\ CacheOnly

\* time passes until the next timer of the limiter
TimerTick ==
    /\ \E c \in Callers : Waiting(c)
    /\ \A c \in Callers : Waiting(c) => callers[c].wake > clock
    /\ clock' = MinOf({callers[c].wake : c \in {d \in Callers : Waiting(d)}})
    /\ lastOp' = NoOp
    /\ UNCHANGED <<proxyCache, nextSeq, reqs, storedAt, served, longTicks>>
    /\ UNCHANGED limiterState
    /\ CacheOnly

\* an idle period passes, with no request in flight
IdleTick ==
    /\ \A c \in Callers : reqs[c].pc = "free"
    /\ longTicks < MaxLongTicks
    /\ clock' = clock + LongTick
    /\ longTicks' = longTicks + 1
    /\ lastOp' = NoOp
    /\ UNCHANGED <<proxyCache, nextSeq, reqs, storedAt, served>>
    /\ UNCHANGED limiterState
    /\ CacheOnly

CacheNext ==
    \/ \E c \in Callers, key \in ReqKeys : Arrive(c, key)
    \/ \E c \in Callers : WakeWindow(c)
    \/ \E c \in Callers : WakeDelay(c)
    \/ \E c \in Callers, o \in UpstreamOutcomes : Fetched(c, o)
    \/ TimerTick
    \/ IdleTick

\* C7: once a request has cached the upstream payload of a key, a later
\* request for that key makes no upstream call while less than the TTL has
\* passed since, and a request answered from the cache comes less than the
\* TTL after the payload was cached (after the TTL the request goes
\* upstream).
C7_CachedWithinTtl ==
    /\ \A c \in Callers : reqs[c].pc = "limit" => ~reqs[c].within
    /\ (lastOp.op = "lookup" /\ lastOp.answered) => lastOp.within

\* C8: getCachedResponse returns the payload exactly when the Map holds
\* the key and the entry's age is below the TTL; otherwise it reports a
\* miss and the Map no longer holds the key.
C8_NeverReturnsExpired ==
    lastOp.op = "lookup" =>
        /\ lastOp.hit <=> (lastOp.found /\ ~lastOp.expired)
        /\ ~lastOp.hit => ~lastOp.kept

\* C8 witness: a lookup found an entry whose age had reached the TTL,
\* reported a miss and removed the entry
C8_Witness ==
    /\ lastOp.op = "lookup"
    /\ lastOp.found /\ lastOp.expired
    /\ ~lastOp.hit /\ ~lastOp.kept

\* C9: a store made while the Map holds more than its limit removes the
\* entry whose key was inserted earliest among those held, whichever
\* entries have been read, and removes no other; a store made below the
\* limit removes none.
C9_EvictsEarliestInserted ==
    lastOp.op = "store" =>
        /\ lastOp.evicted => lastOp.removed = {lastOp.oldest}
        /\ ~lastOp.evicted => lastOp.removed = {}

\* C9 witness: a store evicted the first entry although that entry had
\* been read since, and the entries after it had not
C9_Witness ==
    /\ lastOp.op = "store"
    /\ lastOp.evicted /\ lastOp.wasRead
    /\ \A i \in 1..Len(proxyCache) : ~proxyCache[i].read

(***************************************************************************)
(* fetchWithRetry, waitForRateLimit and getRetryDelay of the client.       *)
(***************************************************************************)
MinDelayBetweenRequests == 2000

MaxRetries == 3

BaseRetryDelay == 3000

MaxRetryDelay == 30000

RetryOnly == UNCHANGED <<chainVars, proxyRateLimiter, callers, lastGap, winStart,
                         winPasses, cacheVars, relayVars, pureVars, restVars>>

\* Math.random(), in thousandths
Randoms == {0, 500, 999}

\* Math.min
Min(a, b) == IF a <= b THEN a ELSE b

\* mutant: the jitter is taken of the whole delay, delay * (random - 0.5)
getRetryDelayWideJitter(n, random) ==
    LET delay  == BaseRetryDelay * 2 ^ n
        jitter == (delay * 10 * (random - 500)) \div 10000
    IN  Min(delay + jitter, MaxRetryDelay)

\* getRetryDelay: delay = base * 2^attempt, jitter = delay * 0.2 *
\* (random - 0.5), in whole milliseconds
getRetryDelay(n, random) ==
    LET delay  == BaseRetryDelay * 2 ^ n
        jitter == (delay * 2 * (random - 500)) \div 10000
    IN  Min(delay + jitter, MaxRetryDelay)

\* response.headers.get('Retry-After'): null, or the delay the server asks
\* for, written as a number of seconds (numeric) or as the HTTP date that
\* lies `seconds` ahead
RetryAfterHeaders ==
    {[present |-> FALSE, numeric |-> FALSE, seconds |-> 0],
     [present |-> TRUE,  numeric |-> TRUE,  seconds |-> 1],
     [present |-> TRUE,  numeric |-> TRUE,  seconds |-> 120],
     [present |-> TRUE,  numeric |-> FALSE, seconds |-> 60]}

NoHeader == [present |-> FALSE, numeric |-> FALSE, seconds |-> 0]

\* what one attempt gives: a response with a status, or a rejected fetch
AttemptOutcomes ==
    {[kind |-> "response", status |-> st, retryAfter |-> NoHeader, name |-> ""] :
        st \in {200, 404, 500, 503}}
    \cup {[kind |-> "response", status |-> 429, retryAfter |-> h, name |-> ""] :
            h \in RetryAfterHeaders}
    \cup {[kind |-> "throw", status |-> 0, retryAfter |-> NoHeader, name |-> nm] :
            nm \in {"TypeError", "SyntaxError"}}

\* retryAfter ? parseInt(retryAfter) * 1000 : getRetryDelay(attempt);
\* parseInt of an HTTP date is NaN, and sleep(NaN) ends at once
RateLimitWait(h, n, random) ==
    IF ~h.present THEN getRetryDelay(n, random)
    ELSE IF h.numeric THEN h.seconds * 1000
    ELSE 0

\* a loop that allows one attempt more
OneMoreAttempt(n) == n <= MaxRetries

\* attempt < RATE_LIMIT.maxRetries
AttemptsRemain(n) == n < MaxRetries

MaxLatencies == 2

\* a slow network answer
LatencyMs == MinDelayBetweenRequests \div 2

\* the client state with no call made; `last` is the time of the last
\* request let through
RetryStartState(last) ==
    /\ retryPc = "idle"
    /\ attempt = 0
    /\ lastRequestTime = last
    /\ retryWake = 0
    /\ retryError = NoValue
    /\ retryLog = <<>>
    /\ retryResult = NoValue
    /\ latencies = 0

RetryIdle == RetryStartState(0 - Epoch)


\* waitForRateLimit up to its await, or to its end when no wait is needed
WaitForRateLimit ==
    IF clock - lastRequestTime < MinDelayBetweenRequests
    THEN /\ retryPc' = "limit"
         /\ retryWake' = clock + (MinDelayBetweenRequests - (clock - lastRequestTime))
         /\ UNCHANGED lastRequestTime
    ELSE /\ retryPc' = "fetch"
         /\ lastRequestTime' = clock
         /\ UNCHANGED retryWake

\* fetchWithRetry is called: the first turn of the loop
RetryStart ==
    /\ retryPc = "idle"
    /\ AttemptsRemain(0)
    /\ WaitForRateLimit
    /\ UNCHANGED <<clock, attempt, retryError, retryLog, retryResult, latencies>>
    /\ RetryOnly

\* the sleep of waitForRateLimit ends: the request is let through
RetryLimitWake ==
    /\ retryPc = "limit"
    /\ clock >= retryWake
    /\ retryPc' = "fetch"
    /\ lastRequestTime' = clock
    /\ UNCHANGED <<clock, attempt, retryWake, retryError, retryLog, retryResult, latencies>>
    /\ RetryOnly

\* await sleep(waitTime); continue
SleepThenContinue(waitTime) ==
    /\ retryPc' = "backoff"
    /\ retryWake' = clock + waitTime

\* the entry of the log for an attempt: when it ended, how, and the wait
\* that follows it (Never: none)
Logged(o, waitTime) == [at |-> clock, outcome |-> o, wait |-> waitTime]

\* the fetch of the attempt ends
RetryResponse(o, random) ==
    /\ retryPc = "fetch"
    /\ IF o.kind = "response" /\ o.status = 429
       THEN /\ SleepThenContinue(RateLimitWait(o.retryAfter, attempt, random))
            /\ retryLog' = Append(retryLog,
                                  Logged(o, RateLimitWait(o.retryAfter, attempt, random)))
            /\ UNCHANGED <<retryError, retryResult>>
       ELSE IF o.kind = "response" /\ o.status >= 500
       THEN /\ SleepThenContinue(getRetryDelay(attempt, random))
            /\ retryLog' = Append(retryLog, Logged(o, getRetryDelay(attempt, random)))
            /\ UNCHANGED <<retryError, retryResult>>
       ELSE IF o.kind = "response"
       THEN /\ retryPc' = "returned"
            /\ retryResult' = o
            /\ retryLog' = Append(retryLog, Logged(o, Never))
            /\ UNCHANGED <<retryError, retryWake>>
       ELSE IF o.name = "TypeError"
       THEN /\ retryError' = o
            /\ SleepThenContinue(getRetryDelay(attempt, random))
            /\ retryLog' = Append(retryLog, Logged(o, getRetryDelay(attempt, random)))
            /\ UNCHANGED retryResult
       ELSE /\ retryError' = o
            /\ retryPc' = "thrown"
            /\ retryResult' = o
            /\ retryLog' = Append(retryLog, Logged(o, Never))
            /\ UNCHANGED retryWake
    /\ UNCHANGED <<clock, attempt, lastRequestTime, latencies>>
    /\ RetryOnly

\* new Error('Max retries exceeded')
MaxRetriesExceeded ==
    [kind |-> "throw", status |-> 0, retryAfter |-> NoHeader, name |-> "Error"]

\* the sleep after a retryable outcome ends: attempt++, then the next turn
\* of the loop or, when no attempt remains, throw lastError || new Error
RetryBackoffWake ==
    /\ retryPc = "backoff"
    /\ clock >= retryWake
    /\ attempt' = attempt + 1
    /\ IF AttemptsRemain(attempt + 1)
       THEN /\ WaitForRateLimit
            /\ UNCHANGED retryResult
       ELSE /\ retryPc' = "thrown"
            /\ retryResult' = IF retryError # NoValue THEN retryError
                              ELSE MaxRetriesExceeded
            /\ UNCHANGED <<lastRequestTime, retryWake>>
    /\ UNCHANGED <<clock, retryError, retryLog, latencies>>
    /\ RetryOnly

\* time passes until the pending sleep ends
RetryTick ==
    /\ retryPc \in {"limit", "backoff"}
    /\ retryWake > clock
    /\ clock' = retryWake
    /\ UNCHANGED retryVars
    /\ RetryOnly

\* the network takes its time to answer
RetryLatency ==
    /\ retryPc = "fetch"
    /\ latencies < MaxLatencies
    /\ clock' = clock + LatencyMs
    /\ latencies' = latencies + 1
    /\ UNCHANGED <<retryPc, attempt, lastRequestTime, retryWake, retryError, retryLog,
                   retryResult>>
    /\ RetryOnly

RetryNext ==
    \/ RetryStart
    \/ RetryLimitWake
    \/ \E o \in AttemptOutcomes, random \in Randoms : RetryResponse(o, random)
    \/ RetryBackoffWake
    \/ RetryTick
    \/ RetryLatency

\* the outcomes the claim calls retryable: a 429, a 5xx, a failed connection
Retryable(o) ==
    \/ o.kind = "response" /\ (o.status = 429 \/ o.status >= 500)
    \/ o.kind = "throw" /\ o.name = "TypeError"

RetryEnded == retryPc \in {"returned", "thrown"}

C10_Bounded ==
    /\ Len(retryLog) <= MaxRetries
    /\ \A i \in 1..Len(retryLog) :
         /\ Retryable(retryLog[i].outcome) => retryLog[i].wait # Never
         /\ i < Len(retryLog) => Retryable(retryLog[i].outcome)
    /\ (retryPc = "fetch" /\ retryLog # <<>>) =>
         lastRequestTime >= retryLog[Len(retryLog)].at + retryLog[Len(retryLog)].wait
    /\ (RetryEnded /\ Len(retryLog) < MaxRetries) =>
         ~Retryable(retryLog[Len(retryLog)].outcome)

\* C10: a call of fetchWithRetry makes at most maxRetries attempts; an
\* attempt that ends in a 429, a 5xx or a failed connection is followed by
\* a wait, and by another attempt, not sooner than the wait, while
\* attempts remain; the call ends after a retryable outcome only when the
\* attempts are used up; and every call ends.
C10_RetriesThenTerminates ==
    /\ []C10_Bounded
    /\ (retryPc # "idle") ~> RetryEnded

\* C10 witness: a call has thrown after maxRetries attempts that all ended
\* in a retryable outcome
C10_Witness ==
    /\ retryPc = "thrown"
    /\ Len(retryLog) = MaxRetries
    /\ \A i \in 1..Len(retryLog) : Retryable(retryLog[i].outcome)

(***************************************************************************)
(* The relay functions: the Netlify edge function (fetch-transcript.ts)    *)
(* and the two Netlify functions, one built on the youtube-transcript      *)
(* library ("function") and one on Innertube behind proxies ("innertube"). *)
(* Each runs the same loop: try, and on any error sleep and try again.     *)
(***************************************************************************)
RelayOnly == UNCHANGED <<chainVars, proxyRateLimiter, callers, lastGap, winStart,
                         winPasses, cacheVars, retryVars, pureVars, restVars>>

RelayKinds == {"edge", "function", "innertube"}

MaxProxies == 4

\* const maxRetries = 3 of the edge function and of the library function
RelayMaxRetries == 3

\* 3000 * Math.pow(2, attempt)
RelayBaseDelay == 3000

\* the innertube function's setTimeout(resolve, 1000)
ProxyRetryDelay == 1000

DisabledMessage == "Transcript is disabled for this video"

NoTranscriptMessage == "No transcript available for this video"

UnavailableMessage == "Video unavailable"

NetworkMessage == "fetch failed"

Messages == {DisabledMessage, NoTranscriptMessage, UnavailableMessage, NetworkMessage}

\* String.prototype.includes, for the fragments the handlers test
Includes(message, fragment) ==
    fragment \in
        CASE message = DisabledMessage     -> {"Transcript is disabled", "disabled"}
          [] message = NoTranscriptMessage -> {"No transcript"}
          [] message = UnavailableMessage  -> {"Video unavailable", "unavailable"}
          [] OTHER                         -> {}

\* what the awaited library call gives: a transcript (a list of items,
\* possibly empty), no transcript data at all (Innertube), or an error
LibraryOutcomes ==
    {[kind |-> "transcript", snippets |-> s, message |-> ""] : s \in SnippetLists}
    \cup {[kind |-> "no-data", snippets |-> <<>>, message |-> ""]}
    \cup {[kind |-> "throw", snippets |-> <<>>, message |-> m] : m \in Messages}

\* maxRetries of the handler
MaxRetriesOf(kind, proxies) ==
    IF kind = "innertube"
    THEN (IF proxies > 0 THEN Min(RelayMaxRetries, proxies) ELSE 1)
    ELSE RelayMaxRetries

\* the sleep between two attempts
RelayDelay(kind, n) ==
    IF kind = "innertube" THEN ProxyRetryDelay ELSE RelayBaseDelay * 2 ^ n

\* the try block of one attempt: [ok, snippets, message]
TryBlock(kind, o) ==
    IF o.kind = "throw"
    THEN [ok |-> FALSE, snippets |-> <<>>, message |-> o.message]
    ELSE IF kind = "innertube" /\ o.kind = "no-data"
    THEN [ok |-> FALSE, snippets |-> <<>>, message |-> NoTranscriptMessage]
    ELSE IF kind = "innertube" /\ Len(o.snippets) = 0
    THEN [ok |-> FALSE, snippets |-> <<>>, message |-> DisabledMessage]
    ELSE [ok |-> TRUE, snippets |-> o.snippets, message |-> ""]

\* the answer once every attempt has failed
RelayErrorResponse(kind, message) ==
    IF kind = "edge"
    THEN IF Includes(message, "Transcript is disabled")
         THEN [statusCode |-> 404, body |-> [error |-> "Transcripts are disabled for this video"]]
         ELSE IF Includes(message, "No transcript found")
         THEN [statusCode |-> 404, body |-> [error |-> "No transcript found for this video"]]
         ELSE IF Includes(message, "Video unavailable")
         THEN [statusCode |-> 404, body |-> [error |-> "Video is unavailable"]]
         ELSE [statusCode |-> 500, body |-> [error |-> message]]
    ELSE IF Includes(message, "Transcript is disabled") \/ Includes(message, "disabled")
         THEN [statusCode |-> 404, body |-> [error |-> "Transcripts are disabled for this video"]]
         ELSE IF Includes(message, "No transcript") \/ Includes(message, "not available")
         THEN [statusCode |-> 404, body |-> [error |-> "No transcript found for this video"]]
         ELSE IF Includes(message, "unavailable") \/ Includes(message, "Video unavailable")
         THEN [statusCode |-> 404, body |-> [error |-> "Video is unavailable"]]
         ELSE [statusCode |-> 500, body |-> [error |-> message]]

RelayIdle ==
    /\ relayKind = "edge"
    /\ relayProxies = 0
    /\ relayLangs = <<En>>
    /\ relayPc = "idle"
    /\ relayAttempt = 0
    /\ relayWake = 0
    /\ relayError = NoValue
    /\ relayLog = <<>>
    /\ relayResponse = NoValue
    /\ relayPast = <<>>

\* requests one handler serves, one after the other
MaxRelayRequests == 2

\* proxies[attempt % proxies.length], as an index into the pool; Never
\* when the attempt goes without a proxy
ProxyOf(kind, proxies, n) ==
    IF kind = "innertube" /\ proxies > 0 THEN n % proxies ELSE Never

\* a request with a videoId reaches a handler: the loop starts.  A later
\* request reaches the same handler while the proxy list is still cached
\* (getWebshareProxies keeps it for five minutes), so the pool is the same.
RelayStart ==
    /\ \/ /\ relayPc = "idle"
          /\ relayPast' = relayPast
          /\ \E kind \in RelayKinds, n \in 0..MaxProxies :
                /\ kind # "innertube" => n = 0
                /\ relayKind' = kind
                /\ relayProxies' = n
       \/ /\ relayPc = "done"
          /\ Len(relayPast) < MaxRelayRequests - 1
          /\ relayPast' = Append(relayPast, relayLog[Len(relayLog)].proxy)
          /\ UNCHANGED <<relayKind, relayProxies>>
    /\ \E langs \in PreferredLists : relayLangs' = langs
    /\ relayPc' = "try"
    /\ relayAttempt' = 0
    /\ relayError' = NoValue
    /\ relayLog' = <<>>
    /\ relayResponse' = NoValue
    /\ UNCHANGED <<clock, relayWake>>
    /\ RelayOnly

\* the awaited call of the attempt ends, and with it the try block: a
\* transcript is answered with 200; any error is kept in lastError and,
\* unless this was the last attempt, followed by a sleep
RelayAttempt(o) ==
    /\ relayPc = "try"
    /\ o.kind = "no-data" => relayKind = "innertube"
    /\ LET r    == TryBlock(relayKind, o)
           wait == RelayDelay(relayKind, relayAttempt)
           last == ~(relayAttempt < MaxRetriesOf(relayKind, relayProxies) - 1)
           used == ProxyOf(relayKind, relayProxies, relayAttempt)
       IN  IF r.ok
           THEN /\ relayLog' = Append(relayLog, [result |-> r, wait |-> Never,
                                                 proxy |-> used])
                /\ relayResponse' = [statusCode |-> 200,
                                     body |-> RelayResult(relayLangs, r.snippets)]
                /\ relayPc' = "done"
                /\ UNCHANGED <<relayError, relayAttempt, relayWake>>
           ELSE /\ relayError' = r.message
                /\ IF last
                   THEN /\ relayLog' = Append(relayLog, [result |-> r, wait |-> Never,
                                                         proxy |-> used])
                        /\ relayAttempt' = relayAttempt + 1
                        /\ relayResponse' = RelayErrorResponse(relayKind, r.message)
                        /\ relayPc' = "done"
                        /\ UNCHANGED relayWake
                   ELSE /\ relayLog' = Append(relayLog, [result |-> r, wait |-> wait,
                                                         proxy |-> used])
                        /\ relayWake' = clock + wait
                        /\ relayPc' = "sleep"
                        /\ UNCHANGED <<relayAttempt, relayResponse>>
    /\ UNCHANGED <<clock, relayKind, relayProxies, relayLangs, relayPast>>
    /\ RelayOnly

\* the sleep ends: attempt++ and the next turn of the loop
RelayWakeUp ==
    /\ relayPc = "sleep"
    /\ clock >= relayWake
    /\ relayAttempt' = relayAttempt + 1
    /\ relayPc' = "try"
    /\ UNCHANGED <<clock, relayKind, relayProxies, relayLangs, relayWake, relayError,
                   relayLog, relayResponse, relayPast>>
    /\ RelayOnly

\* time passes until the pending sleep ends
RelayTick ==
    /\ relayPc = "sleep"
    /\ relayWake > clock
    /\ clock' = relayWake
    /\ UNCHANGED relayVars
    /\ RelayOnly

RelayNext ==
    \/ RelayStart
    \/ \E o \in LibraryOutcomes : RelayAttempt(o)
    \/ RelayWakeUp
    \/ RelayTick

(***************************************************************************)
(* The Selector on its own: selectBestCaptionTrack applied to a track list *)
(* and a list of preferred language codes.                                 *)
(***************************************************************************)
PureOnly == UNCHANGED <<chainVars, limiterVars, cacheVars, retryVars, relayVars, restVars>>

\* the function has not been applied yet
NotRun == [notRun |-> TRUE]

Fr == <<"f", "r">>

EsManual == [baseUrl |-> "u-es-m", name |-> "Spanish", languageCode |-> Es, kind |-> "none"]
EnAsr    == [baseUrl |-> "u-en-a", name |-> "English (auto-generated)", languageCode |-> En, kind |-> "asr"]
FrManual == [baseUrl |-> "u-fr-m", name |-> "French", languageCode |-> Fr, kind |-> "none"]
FrAsr    == [baseUrl |-> "u-fr-a", name |-> "French (auto-generated)", languageCode |-> Fr, kind |-> "asr"]

SelectorTracks == {EnManual, EsManual, EnAsr, EsAsr, EnUSAsr, FrManual, FrAsr}

MaxTracks == 3

\* the track lists of at most MaxTracks distinct tracks
SelectorTrackLists ==
    UNION { { t \in [1..n -> SelectorTracks] : \A i, j \in 1..n : t[i] = t[j] => i = j } :
            n \in 0..MaxTracks }

SelectorLangLists == { <<>>, <<En>>, <<Es>>, <<En, Es>>, <<Es, En>>, <<EnUS, Es>> }

SelectorIdle ==
    /\ selTracks = <<>>
    /\ selLangs = <<>>
    /\ selected = NotRun


\* the arguments of a call
SelectorInit ==
    /\ selTracks \in SelectorTrackLists
    /\ selLangs \in SelectorLangLists
    /\ selected = NotRun

\* the call
Select ==
    /\ selected = NotRun
    /\ selected' = selectBestCaptionTrack(selTracks, selLangs)
    /\ UNCHANGED <<selTracks, selLangs, payload, serverTracks, clientTracks,
                   transcriptXml, serverSnippets, clientSnippets>>
    /\ PureOnly

SelectorNext == Select

(***************************************************************************)
(* The Resolver: extractCaptionTracks of the server (bracket scan, then    *)
(* the ytInitialPlayerResponse fallback) and of the client (two regular    *)
(* expressions).  A payload is a sequence of tokens: the literals the code *)
(* searches for, the four bracket characters, commas, and strings.  The    *)
(* scans of the code go character by character, so a string that contains  *)
(* a bracket character counts as that bracket for them; JSON.parse sees it *)
(* as a string.                                                            *)
(***************************************************************************)
\* the literal texts
VarTok == "var ytInitialPlayerResponse = "
CapTok == "\"captions\":"
RndTok == "\"playerCaptionsTracklistRenderer\":"
TrkTok == "\"captionTracks\":"
AudTok == "\"audioTracks\":"
NameTok == "\"name\":"
RunsTok == "\"runs\":"

\* a string value that contains a closing bracket, e.g. "Part 1]"
BracketString == "\"simpleText\":\"Part 1]\""

\* the characters '[' and ']' wherever they stand
IsOpen(t) == t = "["
IsClose(t) == t \in {"]", BracketString}

\* the shapes of a track object: its name is {"simpleText": ...},
\* {"runs": [{"text": ...}]}, or a simpleText that contains a bracket
TrackShapes == {"simple", "runs", "bracket-in-name"}

RenderTrack(shape) ==
    <<"{", "\"baseUrl\":\"u\"", ",", NameTok, "{">>
    \o (CASE shape = "simple" -> <<"\"simpleText\":\"English\"">>
          [] shape = "runs"   -> <<RunsTok, "[", "{", "\"text\":\"Spanish\"", "}", "]">>
          [] OTHER            -> <<BracketString>>)
    \o <<"}", ",", "\"languageCode\":\"xx\"", "}">>

MaxPageTracks == 2

\* the track arrays a payload can hold
PageTrackLists == UNION { [1..n -> TrackShapes] : n \in 0..MaxPageTracks }

\* JSON.stringify of the array of tracks
RECURSIVE RenderElements(_)
RenderElements(tracks) ==
    IF Len(tracks) = 0 THEN <<>>
    ELSE IF Len(tracks) = 1 THEN RenderTrack(tracks[1])
    ELSE RenderTrack(tracks[1]) \o <<",">> \o RenderElements(Tail(tracks))

RenderArray(tracks) == <<"[">> \o RenderElements(tracks) \o <<"]">>

\* the value of "captions": {"playerCaptionsTracklistRenderer":
\* {"captionTracks": [...], "audioTracks": [...]}}
RenderCaptions(tracks, audio) ==
    <<"{", RndTok, "{", TrkTok>> \o RenderArray(tracks)
    \o (IF audio THEN <<",", AudTok, "[", "{", "\"captionTrackIndices\":0", "}", "]">>
        ELSE <<>>)
    \o <<"}", "}">>

\* the player response
RenderPlayer(tracks, audio) ==
    <<"{", CapTok>> \o RenderCaptions(tracks, audio) \o <<",", "\"videoDetails\":0", "}">>

\* the payloads: a watch page that assigns the player response, the player
\* response alone (the Innertube answer), a text that holds the track
\* array only, and a page without captions
Payloads ==
    { [tracks |-> t, wrapper |-> w, audio |-> a] :
        t \in PageTrackLists, w \in {"page", "player"}, a \in BOOLEAN }
    \cup { [tracks |-> t, wrapper |-> "array", audio |-> FALSE] : t \in PageTrackLists }
    \cup { [tracks |-> <<>>, wrapper |-> "none", audio |-> FALSE] }

HtmlOf(p) ==
    CASE p.wrapper = "page" ->
            <<"<html>", VarTok>> \o RenderPlayer(p.tracks, p.audio) \o <<";", "</html>">>
      [] p.wrapper = "player" -> RenderPlayer(p.tracks, p.audio)
      [] p.wrapper = "array" -> <<"<html>", TrkTok>> \o RenderArray(p.tracks) \o <<"</html>">>
      [] OTHER -> <<"<html>", "</html>">>

\* JSON.parse: a text is parsed when it is the text of a value; ok = FALSE
\* stands for the SyntaxError
Parsed(tracks) == [ok |-> TRUE, tracks |-> tracks]

Unparsed == [ok |-> FALSE, tracks |-> <<>>]

\* JSON.parse(text) for the text of the track array
ParseArray(text) ==
    IF \E t \in PageTrackLists : RenderArray(t) = text
    THEN Parsed(CHOOSE t \in PageTrackLists : RenderArray(t) = text)
    ELSE Unparsed

\* JSON.parse(text).playerCaptionsTracklistRenderer?.captionTracks
ParseCaptions(text) ==
    IF \E t \in PageTrackLists, a \in BOOLEAN : RenderCaptions(t, a) = text
    THEN Parsed(CHOOSE t \in PageTrackLists : \E a \in BOOLEAN : RenderCaptions(t, a) = text)
    ELSE Unparsed

\* JSON.parse(text)?.captions?.playerCaptionsTracklistRenderer?.captionTracks
ParsePlayer(text) ==
    IF \E t \in PageTrackLists, a \in BOOLEAN : RenderPlayer(t, a) = text
    THEN Parsed(CHOOSE t \in PageTrackLists : \E a \in BOOLEAN : RenderPlayer(t, a) = text)
    ELSE Unparsed

\* the least index of a set of indices, or 0: indexOf and the leftmost,
\* shortest match of a lazy pattern
FirstIn(S) == IF S = {} THEN 0 ELSE MinOf(S)

\* the scan gives up 50000 characters after the opening bracket
ScanLimit == 50000

\* html.indexOf('"captionTracks":[')
CaptionTracksStart(html) ==
    FirstIn({ i \in 1..(Len(html) - 1) : html[i] = TrkTok /\ html[i + 1] = "[" })

\* `depth` once the scan from arrayStart has read html[i]
DepthAt(html, arrayStart, i) ==
    Cardinality({ k \in arrayStart..i : IsOpen(html[k]) })
    - Cardinality({ k \in arrayStart..i : IsClose(html[k]) })

\* the index at which the scan stops (arrayEnd - 1), or 0 when depth never
\* returns to zero
MatchingClose(html, arrayStart) ==
    FirstIn({ i \in arrayStart..Min(Len(html), arrayStart + ScanLimit - 1) :
                IsClose(html[i]) /\ DepthAt(html, arrayStart, i) = 0 })

\* Method 1: the array found by the balanced bracket scan, parsed
BracketScan(html) ==
    LET start      == CaptionTracksStart(html)
        arrayStart == start + 1
        close      == MatchingClose(html, arrayStart)
    IN  IF start = 0 \/ close = 0 THEN Unparsed
        ELSE ParseArray(SubSeq(html, arrayStart, close))

\* Method 2: /var\s+ytInitialPlayerResponse\s*=\s*(\{[\s\S]+?\});/, parsed
PlayerResponse(html) ==
    LET start == FirstIn({ i \in 1..(Len(html) - 1) :
                            html[i] = VarTok /\ html[i + 1] = "{" })
        close == FirstIn({ j \in (start + 3)..(Len(html) - 1) :
                            html[j] = "}" /\ html[j + 1] = ";" })
    IN  IF start = 0 \/ close = 0 THEN Unparsed
        ELSE ParsePlayer(SubSeq(html, start + 1, close))

\* extractCaptionTracks of the server
extractCaptionTracks(html) ==
    LET byScan   == BracketScan(html)
        byPlayer == PlayerResponse(html)
    IN  IF byScan.ok /\ Len(byScan.tracks) > 0 THEN byScan.tracks
        ELSE IF byPlayer.ok /\ Len(byPlayer.tracks) > 0 THEN byPlayer.tracks
        ELSE <<>>

\* /"captions":\s*(\{[\s\S]*?"captionTracks":\s*\[[\s\S]*?\][\s\S]*?\})/:
\* [found, text]; each lazy part ends at the first place the next literal
\* stands
CaptionsMatch(html) ==
    LET ends(c) ==
            LET t == FirstIn({ i \in (c + 2)..(Len(html) - 1) :
                                html[i] = TrkTok /\ html[i + 1] = "[" })
                b == IF t = 0 THEN 0
                     ELSE FirstIn({ i \in (t + 2)..Len(html) : IsClose(html[i]) })
            IN  IF b = 0 THEN 0
                ELSE FirstIn({ i \in (b + 1)..Len(html) : html[i] = "}" })
        c == FirstIn({ i \in 1..(Len(html) - 1) :
                        html[i] = CapTok /\ html[i + 1] = "{" /\ ends(i) # 0 })
    IN  IF c = 0 THEN [found |-> FALSE, text |-> <<>>]
        ELSE [found |-> TRUE, text |-> SubSeq(html, c + 1, ends(c))]

\* /captionTracks":\s*(\[[\s\S]*?\])/
AltMatch(html) ==
    LET t == CaptionTracksStart(html)
        b == IF t = 0 THEN 0
             ELSE FirstIn({ i \in (t + 2)..Len(html) : IsClose(html[i]) })
    IN  IF b = 0 THEN [found |-> FALSE, text |-> <<>>]
        ELSE [found |-> TRUE, text |-> SubSeq(html, t + 1, b)]

\* extractCaptionTracks of the client
extractCaptionTracksClient(html) ==
    LET match    == CaptionsMatch(html)
        altMatch == AltMatch(html)
    IN  IF ~match.found
        THEN (IF altMatch.found /\ ParseArray(altMatch.text).ok
              THEN ParseArray(altMatch.text).tracks ELSE <<>>)
        ELSE IF ParseCaptions(match.text).ok THEN ParseCaptions(match.text).tracks
        ELSE <<>>

\* mutant: JSON.parse stands outside every try, its SyntaxError leaves
\* the function
EscapesUncaught(r) == ~r.ok

\* whether the error of a failed JSON.parse leaves the function: each
\* JSON.parse stands in a try whose catch logs (server) or returns []
\* (client), inside the try that spans the whole function
Escapes(r) == FALSE

\* the server's extractCaptionTracks throws
extractCaptionTracksThrows(html) ==
    Escapes(BracketScan(html)) \/ Escapes(PlayerResponse(html))

\* the client's extractCaptionTracks throws
extractCaptionTracksClientThrows(html) ==
    IF CaptionsMatch(html).found THEN Escapes(ParseCaptions(CaptionsMatch(html).text))
    ELSE AltMatch(html).found /\ Escapes(ParseArray(AltMatch(html).text))

NotResolved == [done |-> FALSE, tracks |-> <<>>, threw |-> FALSE]

ResolverIdle ==
    /\ payload = [tracks |-> <<>>, wrapper |-> "none", audio |-> FALSE]
    /\ serverTracks = NotResolved
    /\ clientTracks = NotResolved

\* the payload a call is given
ResolverInit ==
    /\ payload \in Payloads
    /\ serverTracks = NotResolved
    /\ clientTracks = NotResolved

\* the server's extractCaptionTracks is called with the payload
ResolveServer ==
    /\ ~serverTracks.done
    /\ serverTracks' = [done |-> TRUE, tracks |-> extractCaptionTracks(HtmlOf(payload)),
                        threw |-> extractCaptionTracksThrows(HtmlOf(payload))]
    /\ UNCHANGED <<payload, clientTracks, selTracks, selLangs, selected,
                   transcriptXml, serverSnippets, clientSnippets>>
    /\ PureOnly

\* the client's extractCaptionTracks is called with the payload
ResolveClient ==
    /\ ~clientTracks.done
    /\ clientTracks' = [done |-> TRUE,
                        tracks |-> extractCaptionTracksClient(HtmlOf(payload)),
                        threw |-> extractCaptionTracksClientThrows(HtmlOf(payload))]
    /\ UNCHANGED <<payload, serverTracks, selTracks, selLangs, selected,
                   transcriptXml, serverSnippets, clientSnippets>>
    /\ PureOnly

ResolverNext == ResolveServer \/ ResolveClient

(***************************************************************************)
(* The Parser: parseTranscriptXml of the server (a regular expression) and *)
(* of the client (DOMParser).  The timed text is a sequence of <text>      *)
(* elements; an element has or lacks its start and its dur attribute.      *)
(***************************************************************************)
StartText == "12.5"

DurText == "2.5"

\* getAttribute gives null for an attribute the element does not have
NoAttr == "null"

\* parseFloat, in tenths of a second
parseFloat(text) ==
    CASE text = StartText -> 125
      [] text = DurText   -> 25
      [] text = "0"       -> 0

\* String.prototype.trim
Trim(text) == IF text = " " THEN "" ELSE text

ElementTexts == {"a", "b", " "}

\* <text start=".." dur="..">text</text>, with either attribute possibly
\* missing
Elements ==
    { [start |-> s, dur |-> d, text |-> t] :
        s \in {StartText, NoAttr}, d \in {DurText, NoAttr}, t \in ElementTexts }

MaxElements == 2

XmlInputs == UNION { [1..n -> Elements] : n \in 0..MaxElements }

Snippet(text, start, duration) == [text |-> text, start |-> start, duration |-> duration]

\* /<text start="([^"]*)" dur="([^"]*)"[^>]*>([^<]*)<\/text>/ matches the
\* element
RegexMatches(e) == e.start # NoAttr /\ e.dur # NoAttr

\* a || '0'
OrZero(a) == IF a = NoAttr THEN "0" ELSE a

\* parseTranscriptXml of the server: the loop over the matches of the
\* regular expression
parseTranscriptXml(xml) ==
    LET RECURSIVE Scan(_)
        Scan(rest) ==
            IF rest = <<>> THEN <<>>
            ELSE LET e == Head(rest)
                 IN  (IF RegexMatches(e) /\ Trim(e.text) # ""
                      THEN <<Snippet(Trim(e.text), parseFloat(OrZero(e.start)),
                                     parseFloat(OrZero(e.dur)))>>
                      ELSE <<>>) \o Scan(Tail(rest))
    IN  Scan(xml)

\* parseTranscriptXml of the client: forEach over querySelectorAll('text')
parseTranscriptXmlClient(xml) ==
    LET RECURSIVE Each(_)
        Each(rest) ==
            IF rest = <<>> THEN <<>>
            ELSE LET element == Head(rest)
                 IN  (IF Trim(element.text) # ""
                      THEN <<Snippet(Trim(element.text),
                                     parseFloat(OrZero(element.start)),
                                     parseFloat(OrZero(element.dur)))>>
                      ELSE <<>>) \o Each(Tail(rest))
    IN  Each(xml)

NotParsed == [done |-> FALSE, snippets |-> <<>>]

ParserIdle ==
    /\ transcriptXml = <<>>
    /\ serverSnippets = NotParsed
    /\ clientSnippets = NotParsed

\* the timed text a call is given
ParserInit ==
    /\ transcriptXml \in XmlInputs
    /\ serverSnippets = NotParsed
    /\ clientSnippets = NotParsed

\* the server's parseTranscriptXml is called with the timed text
ParseServer ==
    /\ ~serverSnippets.done
    /\ serverSnippets' = [done |-> TRUE, snippets |-> parseTranscriptXml(transcriptXml)]
    /\ UNCHANGED <<transcriptXml, clientSnippets, selTracks, selLangs, selected, payload,
                   serverTracks, clientTracks>>
    /\ PureOnly

\* the client's parseTranscriptXml is called with the timed text
ParseClient ==
    /\ ~clientSnippets.done
    /\ clientSnippets' = [done |-> TRUE, snippets |-> parseTranscriptXmlClient(transcriptXml)]
    /\ UNCHANGED <<transcriptXml, serverSnippets, selTracks, selLangs, selected, payload,
                   serverTracks, clientTracks>>
    /\ PureOnly

ParserNext == ParseServer \/ ParseClient

(***************************************************************************)
(* decodeHtmlEntities of the server (a chain of String.replace) and of the *)
(* client (a textarea, then the same chain).  A text is a sequence of      *)
(* pieces: the characters & < > " ' and the space, the letter a, and the   *)
(* character groups that follow & in an entity (amp; lt; #39;); no piece   *)
(* but "&" holds an ampersand, so an entity of the text is exactly "&"     *)
(* followed by one of the groups.                                          *)
(***************************************************************************)
EntityOnly == UNCHANGED <<chainVars, limiterVars, cacheVars, retryVars, relayVars, pureVars,
                          storeVars, guardVars>>

Pieces == {"&", "<", ">", "\"", "'", " ", "a", "amp;", "lt;", "#39;"}

MaxLiteral == 3

Literals == UNION { [1..n -> Pieces] : n \in 0..MaxLiteral }

\* the escaped form of a character
EscapeChar(c) ==
    CASE c = "&"  -> <<"&", "amp;">>
      [] c = "<"  -> <<"&", "lt;">>
      [] c = ">"  -> <<"&", "gt;">>
      [] c = "\"" -> <<"&", "quot;">>
      [] c = "'"  -> <<"&", "#39;">>
      [] OTHER    -> <<c>>

\* the text as the XML of the timed text carries it
RECURSIVE Escape(_)
Escape(text) ==
    IF Len(text) = 0 THEN <<>> ELSE EscapeChar(text[1]) \o Escape(Tail(text))

\* text.replace(/&group/g, to)
RECURSIVE Replace(_, _, _)
Replace(text, group, to) ==
    IF Len(text) = 0 THEN <<>>
    ELSE IF Len(text) >= 2 /\ text[1] = "&" /\ text[2] = group
    THEN <<to>> \o Replace(SubSeq(text, 3, Len(text)), group, to)
    ELSE <<text[1]>> \o Replace(Tail(text), group, to)

\* String.fromCharCode(parseInt(code)) for the references of the model
FromCharCode(group) == IF group = "#39;" THEN "'" ELSE "?"

\* text.replace(/&#(\d+);/g, (_, code) => String.fromCharCode(parseInt(code)))
RECURSIVE ReplaceNumeric(_)
ReplaceNumeric(text) ==
    IF Len(text) = 0 THEN <<>>
    ELSE IF Len(text) >= 2 /\ text[1] = "&" /\ text[2] \in {"#39;"}
    THEN <<FromCharCode(text[2])>> \o ReplaceNumeric(SubSeq(text, 3, Len(text)))
    ELSE <<text[1]>> \o ReplaceNumeric(Tail(text))

\* String.prototype.trim
RECURSIVE TrimSpaces(_)
TrimSpaces(text) ==
    IF Len(text) = 0 THEN <<>>
    ELSE IF text[1] = " " THEN TrimSpaces(Tail(text))
    ELSE IF text[Len(text)] = " " THEN TrimSpaces(SubSeq(text, 1, Len(text) - 1))
    ELSE text

\* the chain of replacements both versions apply, in the order written
\* (the texts of the model hold no line feed, so .replace(/\n/g, ' ')
\* leaves them as they are)
ReplaceChain(text) ==
    Replace(Replace(Replace(Replace(Replace(text,
        "#39;", "'"), "quot;", "\""), "amp;", "&"), "lt;", "<"), "gt;", ">")

\* decodeHtmlEntities of the server
decodeHtmlEntities(text) == TrimSpaces(ReplaceNumeric(ReplaceChain(text)))

\* textarea.innerHTML = text; textarea.value: every character reference is
\* decoded, each once, in one pass over the text
RECURSIVE TextareaValue(_)
TextareaValue(text) ==
    IF Len(text) = 0 THEN <<>>
    ELSE IF Len(text) >= 2 /\ text[1] = "&"
            /\ text[2] \in {"amp;", "lt;", "gt;", "quot;", "#39;"}
    THEN <<CHOOSE c \in Pieces : EscapeChar(c) = <<"&", text[2]>> >>
         \o TextareaValue(SubSeq(text, 3, Len(text)))
    ELSE <<text[1]>> \o TextareaValue(Tail(text))

\* decodeHtmlEntities of the client
decodeHtmlEntitiesClient(text) == TrimSpaces(ReplaceChain(TextareaValue(text)))

NotDecoded == [done |-> FALSE, text |-> <<>>]

EntityIdle ==
    /\ literal = <<>>
    /\ serverDecoded = NotDecoded
    /\ clientDecoded = NotDecoded

\* the text that is escaped and given to the calls
EntityInit ==
    /\ literal \in Literals
    /\ serverDecoded = NotDecoded
    /\ clientDecoded = NotDecoded

\* the server's decodeHtmlEntities is called with the escaped text
DecodeServer ==
    /\ ~serverDecoded.done
    /\ serverDecoded' = [done |-> TRUE, text |-> decodeHtmlEntities(Escape(literal))]
    /\ UNCHANGED <<literal, clientDecoded>>
    /\ EntityOnly

\* the client's decodeHtmlEntities is called with the escaped text
DecodeClient ==
    /\ ~clientDecoded.done
    /\ clientDecoded' = [done |-> TRUE, text |-> decodeHtmlEntitiesClient(Escape(literal))]
    /\ UNCHANGED <<literal, serverDecoded>>
    /\ EntityOnly

EntityNext == DecodeServer \/ DecodeClient

(***************************************************************************)
(* POST /api/videos/:id/transcript and POST /api/videos/:id/transcript/    *)
(* store, several requests for one video.  A handler runs from one await   *)
(* to the next; the handlers of other requests run in between.  Storage is *)
(* the database: `transcripts` holds the rows of the video, and video_id   *)
(* is declared unique.                                                     *)
(***************************************************************************)
StoreOnly == UNCHANGED <<chainSide, cloudflareUrl, netlifyUrl, preferred, chainPc, chainIdx,
                         chainLog, result, lastError, outcome, transportCalls, chosenTrack,
                         limiterVars, cacheVars, retryVars, relayVars, pureVars, entityVars,
                         guardVars>>

NumHandlers == 2

Handlers == 1..NumHandlers

MaxStoreRequests == 3

Routes == {"transcript", "store"}

IdleHandler == [pc |-> "idle", route |-> "none", id |-> 0, found |-> FALSE,
                transport |-> 0, wrote |-> FALSE, response |-> NoValue]

\* the row a request inserts: the id is generated for each insert
RowOf(h) == [id |-> handlers[h].id, videoId |-> VideoId, via |-> handlers[h].route]

\* mutant: a table without the unique constraint on video_id
createTranscriptNoUnique(rows, row) == [ok |-> TRUE, rows |-> rows \cup {row}]

\* storage.createTranscript: db.insert(transcripts).values(..) with
\* video_id unique; ok = FALSE stands for the error the insert throws
createTranscript(rows, row) ==
    IF \E t \in rows : t.videoId = row.videoId
    THEN [ok |-> FALSE, rows |-> rows]
    ELSE [ok |-> TRUE, rows |-> rows \cup {row}]

\* storage.getTranscriptByVideoId
getTranscriptByVideoId(rows) ==
    IF rows = {} THEN NoValue ELSE CHOOSE t \in rows : t.videoId = VideoId

Respond(h, status, body) ==
    [handlers[h] EXCEPT !.pc = "done", !.response = [status |-> status, body |-> body]]

StoreIdle ==
    /\ handlers = [h \in Handlers |-> IdleHandler]
    /\ storeArrivals = 0

\* a request reaches one of the two routes: await storage.getVideo
StoreArrive(h, route) ==
    /\ handlers[h].pc \in {"idle", "done"}
    /\ storeArrivals < MaxStoreRequests
    /\ storeArrivals' = storeArrivals + 1
    /\ handlers' = [handlers EXCEPT ![h] =
                       [IdleHandler EXCEPT !.pc = "check", !.route = route,
                                           !.id = storeArrivals + 1]]
    /\ UNCHANGED <<transcripts, hasTranscript>>
    /\ StoreOnly

\* from the video to the await after the look-up of the transcript: the
\* store route first validates the fields of its body; a transcript that
\* exists is answered; the store route refuses an empty snippet list
StoreCheck(h, body) ==
    /\ handlers[h].pc = "check"
    /\ handlers[h].route = "transcript" => body = "ok"
    /\ LET existing == getTranscriptByVideoId(transcripts)
       IN  handlers' = [handlers EXCEPT ![h] =
               IF body = "missing-fields"
               THEN Respond(h, "400", [error |-> "missing-fields"])
               ELSE IF existing # NoValue
               THEN [Respond(h, "200", existing) EXCEPT !.found = TRUE]
               ELSE IF body = "no-snippets"
               THEN Respond(h, "400", [error |-> "invalid-snippets"])
               ELSE [handlers[h] EXCEPT !.pc = IF handlers[h].route = "store"
                                                THEN "insert" ELSE "acquire"]]
    /\ UNCHANGED <<transcripts, hasTranscript, storeArrivals>>
    /\ StoreOnly

\* the strategies of the transcript route have run: a transcript, the
\* script's {error} (hasTranscript = false, 400), or a rejection (500)
StoreAcquire(h, o) ==
    /\ handlers[h].pc = "acquire"
    /\ LET ran == [handlers[h] EXCEPT !.transport = @ + 1]
       IN  CASE o = "ok" ->
                   /\ handlers' = [handlers EXCEPT ![h] = [ran EXCEPT !.pc = "insert"]]
                   /\ UNCHANGED hasTranscript
             [] o = "error-json" ->
                   /\ handlers' = [handlers EXCEPT ![h] =
                                     [ran EXCEPT !.pc = "done", !.wrote = TRUE,
                                                 !.response = [status |-> "400",
                                                               body |-> [error |-> "script-error"]]]]
                   /\ hasTranscript' = FALSE
             [] OTHER ->
                   /\ handlers' = [handlers EXCEPT ![h] =
                                     [ran EXCEPT !.pc = "done",
                                                 !.response = [status |-> "500",
                                                               body |-> [error |-> "script-failed"]]]]
                   /\ UNCHANGED hasTranscript
    /\ UNCHANGED <<transcripts, storeArrivals>>
    /\ StoreOnly

\* await storage.createTranscript: the error of a refused insert reaches
\* the route's catch, which answers 500
StoreInsert(h) ==
    /\ handlers[h].pc = "insert"
    /\ LET made == createTranscript(transcripts, RowOf(h))
       IN  /\ transcripts' = made.rows
           /\ handlers' = [handlers EXCEPT ![h] =
                  IF made.ok THEN [handlers[h] EXCEPT !.pc = "mark", !.wrote = TRUE]
                  ELSE Respond(h, "500", [error |-> "duplicate-key"])]
    /\ UNCHANGED <<hasTranscript, storeArrivals>>
    /\ StoreOnly

\* await storage.updateVideo(.., {hasTranscript: true, ..}) and the answer
StoreMark(h) ==
    /\ handlers[h].pc = "mark"
    /\ hasTranscript' = TRUE
    /\ handlers' = [handlers EXCEPT ![h] = Respond(h, "200", RowOf(h))]
    /\ UNCHANGED <<transcripts, storeArrivals>>
    /\ StoreOnly

StoreNext ==
    \/ \E h \in Handlers, route \in Routes : StoreArrive(h, route)
    \/ \E h \in Handlers, body \in {"ok", "missing-fields", "no-snippets"} : StoreCheck(h, body)
    \/ \E h \in Handlers, o \in {"ok", "error-json", "throw"} : StoreAcquire(h, o)
    \/ \E h \in Handlers : StoreInsert(h)
    \/ \E h \in Handlers : StoreMark(h)

(***************************************************************************)
(* The transcript proxy: GET /api/proxy/youtube-transcript of the server   *)
(* and /youtube-transcript of the edge worker.  A URL is a sequence of     *)
(* pieces of text, "https://" first, then the host, then the path and the  *)
(* query; the string is their concatenation.                               *)
(***************************************************************************)
GuardOnly == UNCHANGED <<chainVars, callers, lastGap, winStart, winPasses, reqs, storedAt,
                         lastOp, served, longTicks, retryVars, relayVars, pureVars,
                         entityVars, storeVars>>

MaxProxyRequests == 2

Scheme == "https://"

PlatformNames == {<<"youtube", ".", "com">>, <<"googlevideo", ".", "com">>}

UrlHosts ==
    {<<"www", ".", "youtube", ".", "com">>,
     <<"youtube", ".", "com">>,
     <<"rr1", ".", "googlevideo", ".", "com">>,
     <<"youtube", ".", "com", ".", "evil", ".", "example">>,
     <<"evil", ".", "example">>}

UrlPaths ==
    {<<"/", "api/timedtext", "?v=", "abc">>,
     <<"/", "fetch", "?u=", "youtube", ".", "com">>}

Urls == {<<Scheme>> \o host \o path : host \in UrlHosts, path \in UrlPaths}

\* String.prototype.includes, on the pieces of a URL
UrlIncludes(text, needle) ==
    \E i \in 1..(Len(text) - Len(needle) + 1) :
        SubSeq(text, i, i + Len(needle) - 1) = needle

\* the host of a URL: what stands between the scheme and the first "/"
HostOf(url) ==
    LET slash == CHOOSE i \in 2..Len(url) :
                     url[i] = "/" /\ \A j \in 2..(i - 1) : url[j] # "/"
    IN  SubSeq(url, 2, slash - 1)

\* the host is a platform name or a subdomain of one
HostBelongs(url) ==
    LET host == HostOf(url)
    IN  \E name \in PlatformNames :
            /\ Len(host) >= Len(name)
            /\ SubSeq(host, Len(host) - Len(name) + 1, Len(host)) = name
            /\ Len(host) > Len(name) => host[Len(host) - Len(name)] = "."

\* url.includes('youtube.com') || url.includes('googlevideo.com')
ValidTranscriptUrl(url) == \E name \in PlatformNames : UrlIncludes(url, name)

Answer(side, url, status, upstream, untouched) ==
    [side |-> side, url |-> url, status |-> status, upstream |-> upstream,
     untouched |-> untouched]

GuardIdle ==
    /\ proxyAnswer = NoValue
    /\ upstreamUrls = {}
    /\ proxyServed = 0

\* GET /api/proxy/youtube-transcript?url=..: validation, cache look-up,
\* waitForProxyRateLimit, upstream fetch, store and answer
ProxyTranscriptServer(url, o) ==
    /\ proxyServed < MaxProxyRequests
    /\ proxyServed' = proxyServed + 1
    /\ LET key  == TranscriptKey(url)
           got  == getCachedResponse(proxyCache, key, clock)
           st   == NextCall([rl |-> proxyRateLimiter, clock |-> clock])
       IN  IF ~ValidTranscriptUrl(url)
           THEN /\ UNCHANGED <<proxyCache, nextSeq, proxyRateLimiter, clock, upstreamUrls>>
                /\ proxyAnswer' = Answer("server", url, "400", FALSE, TRUE)
           ELSE IF Truthy(got.value)
           THEN /\ proxyCache' = got.cache
                /\ UNCHANGED <<nextSeq, proxyRateLimiter, clock, upstreamUrls>>
                /\ proxyAnswer' = Answer("server", url, "200", FALSE, TRUE)
           ELSE /\ proxyRateLimiter' = st.rl
                /\ clock' = st.clock
                /\ upstreamUrls' = upstreamUrls \cup {url}
                /\ IF o.kind = "ok"
                   THEN /\ proxyCache' = setCachedResponse(got.cache, key, o.body,
                                                           st.clock, nextSeq)
                        /\ nextSeq' = SeqAfter(got.cache, key, nextSeq)
                   ELSE /\ proxyCache' = got.cache
                        /\ UNCHANGED nextSeq
                /\ proxyAnswer' = Answer("server", url, o.status, TRUE, FALSE)
    /\ GuardOnly

\* the worker's fetchTranscript: validation, upstream fetch and answer;
\* the worker keeps no cache and no limiter
ProxyTranscriptWorker(url, o) ==
    /\ proxyServed < MaxProxyRequests
    /\ proxyServed' = proxyServed + 1
    /\ IF ~ValidTranscriptUrl(url)
       THEN /\ UNCHANGED upstreamUrls
            /\ proxyAnswer' = Answer("worker", url, "400", FALSE, TRUE)
       ELSE /\ upstreamUrls' = upstreamUrls \cup {url}
            /\ proxyAnswer' = Answer("worker", url, o.status, TRUE, TRUE)
    /\ UNCHANGED <<proxyCache, nextSeq, proxyRateLimiter, clock>>
    /\ GuardOnly

GuardNext ==
    \/ \E url \in Urls, o \in UpstreamOutcomes : ProxyTranscriptServer(url, o)
    \/ \E url \in Urls, o \in UpstreamOutcomes : ProxyTranscriptWorker(url, o)

PureIdle ==
    SelectorIdle /\ ResolverIdle /\ ParserIdle /\ EntityIdle /\ StoreIdle /\ GuardIdle

(***************************************************************************)
(* Claims about the Selector                                               *)
(***************************************************************************)
Generated(t) == t.kind = "asr"

\* the pairs <<j, i>>: track i prefix-matches preferred code j and is
\* generated or not as asked
PreferredMatches(tracks, langs, generated) ==
    { p \in (1..Len(langs)) \X (1..Len(tracks)) :
        /\ StartsWith(tracks[p[2]].languageCode, langs[p[1]])
        /\ Generated(tracks[p[2]]) = generated }

\* the first pair when the preferred codes are scanned in the given order
\* and, for one code, the tracks in list order
FirstMatch(S) ==
    CHOOSE p \in S : \A q \in S : p[1] < q[1] \/ (p[1] = q[1] /\ p[2] <= q[2])

\* the track the precedence of the claim gives, first match wins
ByPrecedence(tracks, langs) ==
    LET manual    == PreferredMatches(tracks, langs, FALSE)
        generated == PreferredMatches(tracks, langs, TRUE)
        anyManual == { i \in 1..Len(tracks) : ~Generated(tracks[i]) }
    IN  IF manual # {} THEN tracks[FirstMatch(manual)[2]]
        ELSE IF generated # {} THEN tracks[FirstMatch(generated)[2]]
        ELSE IF anyManual # {} THEN tracks[MinOf(anyManual)]
        ELSE IF Len(tracks) > 0 THEN tracks[1]
        ELSE NoValue

\* C15: selectBestCaptionTrack returns the track given by the precedence
\* (1) manual track matching a preferred code, codes scanned in order,
\* (2) generated track matching a preferred code, (3) any manual track,
\* (4) the first track; none only for an empty list; and never a generated
\* track when a manual track matching a preferred code exists.
C15_SelectorPrecedence ==
    selected # NotRun =>
        /\ selected = ByPrecedence(selTracks, selLangs)
        /\ (selected = NoValue) <=> (selTracks = <<>>)
        /\ PreferredMatches(selTracks, selLangs, FALSE) # {} => ~Generated(selected)

\* C15 witness: the list starts with a generated track matching the first
\* preferred code, and the manual track matching the second code was
\* returned
C15_Witness ==
    /\ selected # NotRun
    /\ Len(selTracks) >= 2
    /\ Len(selLangs) = 2
    /\ Generated(selTracks[1])
    /\ StartsWith(selTracks[1].languageCode, selLangs[1])
    /\ selected # NoValue
    /\ ~Generated(selected)
    /\ StartsWith(selected.languageCode, selLangs[2])
    /\ ~StartsWith(selected.languageCode, selLangs[1])

(***************************************************************************)
(* Claims about the Resolver                                               *)
(***************************************************************************)
\* a track object of the payload holds a nested bracketed structure
HasNestedBrackets(p) == \E i \in 1..Len(p.tracks) : p.tracks[i] = "runs"

\* C16: for every well-formed payload whose track objects contain nested
\* bracketed structures, extractCaptionTracks (server and client) returns
\* exactly the caption tracks the payload holds, in source order.
C16_ResolverExact ==
    HasNestedBrackets(payload) =>
        /\ serverTracks.done => serverTracks.tracks = payload.tracks
        /\ clientTracks.done => clientTracks.tracks = payload.tracks

(***************************************************************************)
(* Claims about the Parser                                                 *)
(***************************************************************************)
\* a well-formed timed element: it has its start-offset attribute, its
\* duration attribute, and text that is not blank
WellFormedTimed(e) == e.start # NoAttr /\ e.dur # NoAttr /\ Trim(e.text) # ""

\* the k-th index, in source order, of a well-formed timed element
NthWellFormed(input, k) ==
    CHOOSE i \in 1..Len(input) :
        /\ WellFormedTimed(input[i])
        /\ Cardinality({ j \in 1..i : WellFormedTimed(input[j]) }) = k

\* one snippet per well-formed timed element, in source order
ExpectedSnippets(input) ==
    [ k \in 1..Cardinality({ i \in 1..Len(input) : WellFormedTimed(input[i]) }) |->
        LET e == input[NthWellFormed(input, k)]
        IN  Snippet(Trim(e.text), parseFloat(e.start), parseFloat(e.dur)) ]

\* C17: parseTranscriptXml (server and client) returns one snippet per
\* well-formed timed element of the input, in source order; an element that
\* lacks its start-offset or its duration attribute gives no snippet and
\* the scan goes on with the elements after it.
C17_ParserSkipsIllFormed ==
    /\ serverSnippets.done => serverSnippets.snippets = ExpectedSnippets(transcriptXml)
    /\ clientSnippets.done => clientSnippets.snippets = ExpectedSnippets(transcriptXml)

(***************************************************************************)
(* Claims about the retry loops                                            *)
(***************************************************************************)
\* a failed relay attempt whose error is a content signal: captions
\* disabled, video unavailable
ContentSignal(r) == ~r.ok /\ r.message \in {DisabledMessage, UnavailableMessage}

\* C11: in every retry loop (fetchWithRetry, the relay functions, the edge
\* function) a non-retryable outcome ends the loop at once: it is the last
\* attempt of the call, no wait follows it, and the call has ended with it.
C11_NonRetryableEndsLoop ==
    /\ \A i \in 1..Len(retryLog) :
         ~Retryable(retryLog[i].outcome) =>
             /\ i = Len(retryLog)
             /\ retryLog[i].wait = Never
             /\ RetryEnded
    /\ \A i \in 1..Len(relayLog) :
         ContentSignal(relayLog[i].result) =>
             /\ i = Len(relayLog)
             /\ relayLog[i].wait = Never
             /\ relayPc = "done"

\* a logged attempt that ended in a 429 response
RateLimited(e) == e.outcome.kind = "response" /\ e.outcome.status = 429

\* the backoffs getRetryDelay can compute for attempt n
ComputedBackoffs(n) == { getRetryDelay(n, random) : random \in Randoms }

\* C12: in fetchWithRetry, after a 429 that carries a server-supplied
\* Retry-After delay the wait before the next attempt is that delay; after
\* a 429 that carries none it is the backoff getRetryDelay computes for
\* that attempt.
C12_RetryAfterHonoured ==
    \A i \in 1..Len(retryLog) :
        RateLimited(retryLog[i]) =>
            IF retryLog[i].outcome.retryAfter.present
            THEN retryLog[i].wait = retryLog[i].outcome.retryAfter.seconds * 1000
            ELSE retryLog[i].wait \in ComputedBackoffs(i - 1)

\* a logged attempt that ended in a 429 response without Retry-After
RateLimitedNoDelay(e) == RateLimited(e) /\ ~e.outcome.retryAfter.present

\* C13: the backoff after a rate-limit response with no server-supplied
\* delay lies within [base*2^attempt*0.8, base*2^attempt*1.2] and is never
\* above the ceiling, for every attempt index of the loop.
C13_BackoffWithinJitter ==
    \A i \in 1..Len(retryLog) :
        RateLimitedNoDelay(retryLog[i]) =>
            /\ 10 * retryLog[i].wait >= 8 * BaseRetryDelay * 2 ^ (i - 1)
            /\ 10 * retryLog[i].wait <= 12 * BaseRetryDelay * 2 ^ (i - 1)
            /\ retryLog[i].wait <= MaxRetryDelay

\* C13 witness: the last attempt of a call ended in a 429 without
\* Retry-After and its backoff is the doubled delay plus jitter
C13_Witness ==
    /\ Len(retryLog) = MaxRetries
    /\ RateLimitedNoDelay(retryLog[MaxRetries])
    /\ retryLog[MaxRetries].wait > BaseRetryDelay * 2 ^ (MaxRetries - 1)
    /\ RateLimitedNoDelay(retryLog[1])
    /\ retryLog[1].wait < BaseRetryDelay

\* the waits fetchWithRetry has inserted between attempts so far
RECURSIVE TotalWait(_)
TotalWait(log) ==
    IF log = <<>> THEN 0
    ELSE (IF log[1].wait = Never THEN 0 ELSE log[1].wait) + TotalWait(Tail(log))

\* C14: every wait fetchWithRetry inserts between two attempts is at most
\* maxRetryDelay, whatever the upstream answers, so the waits of one call
\* add up to at most maxRetries * maxRetryDelay.
C14_WaitsBelowCeiling ==
    /\ \A i \in 1..Len(retryLog) : retryLog[i].wait <= MaxRetryDelay
    /\ TotalWait(retryLog) <= MaxRetries * MaxRetryDelay

(***************************************************************************)
(* Claims about what a strategy produces and what the route answers        *)
(***************************************************************************)
\* the fields of a TranscriptResult
TranscriptResultFields ==
    {"videoId", "language", "languageCode", "isGenerated", "snippets", "fullText"}

\* the strategy that ran last succeeded: `result` holds what it produced
StrategySucceeded == Len(chainLog) > 0 /\ LastAttempt.ok

\* C18: the TranscriptResult of a successful strategy carries the video
\* identifier, language, language code, generated-flag, snippets and full
\* text; the language code and the generated-flag are those of the track
\* the Selector chose, and the full text is the snippet texts joined by
\* single spaces.
C18_ResultCarriesTrack ==
    StrategySucceeded =>
        /\ TranscriptResultFields \subseteq DOMAIN result
        /\ result.videoId = VideoId
        /\ result.fullText = JoinSpace(result.snippets)
        /\ chosenTrack # NoValue =>
               /\ result.languageCode = chosenTrack.languageCode
               /\ result.isGenerated = (chosenTrack.kind = "asr")

\* C19: no strategy reports success with an empty snippet list: a strategy
\* whose timed text gave zero snippets is logged as failed, and the chain
\* goes on to the strategy after it.
C19_EmptyIsFailure ==
    \A i \in 1..Len(chainLog) :
        chainLog[i].ok => Len(chainLog[i].value.snippets) > 0

\* the route has answered a request for which every strategy it tried failed
AcquisitionFailed ==
    /\ chainSide = "server"
    /\ chainPc = "done"
    /\ Len(chainLog) > 0
    /\ \A i \in 1..Len(chainLog) : ~chainLog[i].ok

\* C20: when every strategy of the route has failed, the route answers
\* with a 4xx status, the video is marked as lacking a transcript and no
\* transcript is stored.
C20_FailureIsClientError ==
    AcquisitionFailed =>
        /\ outcome.status = "400"
        /\ hasTranscript = FALSE
        /\ transcripts = {}

\* the attempts of the metadata-API strategy logged so far
MetadataAttempts == { i \in 1..Len(chainLog) : chainLog[i].strategy = "youtube-api" }

\* C21: the metadata-API strategy (fetchTranscriptViaYouTubeAPI over
\* /api/proxy/youtube-captions-api) is never a content source: every
\* attempt of it ends in a failure, and what the caller receives never
\* comes from it.
C21_MetadataNeverContent ==
    \A i \in MetadataAttempts :
        /\ ~chainLog[i].ok
        /\ chainPc = "done" => outcome.status = "thrown"

\* C21 witness: the endpoint answered 200 with the metadata of a caption,
\* and the strategy failed for want of snippets
C21_Witness ==
    \E i \in MetadataAttempts :
        /\ chainLog[i].value.kind = "no-transcript-data"
        /\ chainPc = "done"

(***************************************************************************)
(* Claims about the proxy endpoints                                        *)
(***************************************************************************)
\* the handler of request c has passed the limiter and runs its
\* `await fetch(url, fetchOptions)` to the platform, on the origin server
ServerFetches(c) == reqs[c].pc = "limit" /\ callers[c].pc = "done"

\* C22: in the caller-browser strategy the calls to the platform are made
\* by the browser: the origin server, asked for a page or a timed text by
\* fetchTranscriptClientSide, makes no request to the platform; it only
\* relays or stores a payload the browser fetched.
C22_ServerMakesNoPlatformCall ==
    /\ \A c \in Callers : ~ServerFetches(c)
    /\ lastOp.op \notin {"store", "error"}

(***************************************************************************)
(* Claims about the relay function's proxy pool                            *)
(***************************************************************************)
\* the request is served by the function that has a non-empty proxy pool
PooledRequest == relayKind = "innertube" /\ relayProxies > 0

\* C23: with a non-empty pool the relay function takes the next proxy of
\* the pool at each attempt, round-robin: attempt i uses proxy i mod pool
\* size, no proxy serves two attempts of one request, and the first
\* attempt of a request uses the proxy after the one the request before
\* it used last.
C23_ProxyRoundRobin ==
    PooledRequest =>
        /\ \A i \in 1..Len(relayLog) : relayLog[i].proxy = (i - 1) % relayProxies
        /\ \A i, j \in 1..Len(relayLog) :
               i # j => relayLog[i].proxy # relayLog[j].proxy
        /\ (relayPast # <<>> /\ relayLog # <<>>) =>
               relayLog[1].proxy = (relayPast[Len(relayPast)] + 1) % relayProxies

\* the Map holds the consent page as the payload of some key
HoldsConsentPage == \E i \in 1..Len(proxyCache) : proxyCache[i].data = ConsentPage

\* C27: the response cache holds payloads of successful upstream
\* responses only: a non-ok response and a failed request leave the Map as
\* it was, and a consent or login page is never stored, so none of these is
\* replayed to a later request.
C27_CacheHoldsSuccessesOnly ==
    /\ [](~HoldsConsentPage)
    /\ [][lastOp'.op = "error" => proxyCache' = proxyCache]_vars

\* C28: the response cache never holds more than 101 entries: a store
\* made while the Map holds more than 100 removes one entry before it
\* adds its own.
C28_CacheAtMostLimitPlusOne ==
    /\ Len(proxyCache) <= CacheLimit + 1
    /\ (lastOp.op = "store" /\ lastOp.evicted) => Cardinality(lastOp.removed) = 1

\* C28 witness: a store found 101 entries, removed one and left 101
C28_Witness ==
    /\ lastOp.op = "store"
    /\ lastOp.evicted
    /\ Len(proxyCache) = CacheLimit + 1

(***************************************************************************)
(* Claims about the window of the rate limiter                             *)
(***************************************************************************)
\* call c enters waitForProxyRateLimit in this step, the window having
\* started 60 seconds ago or more
EntersOldWindow(c) ==
    /\ callers[c].pc = "idle"
    /\ callers'[c].pc # "idle"
    /\ clock - proxyRateLimiter.resetTime >= WindowMs

Found(r) == r.ok /\ Len(r.tracks) > 0

\* the method the client's extractCaptionTracks takes for the text
ClientMethod(html) ==
    IF CaptionsMatch(html).found THEN ParseCaptions(CaptionsMatch(html).text)
    ELSE IF AltMatch(html).found THEN ParseArray(AltMatch(html).text)
    ELSE Unparsed

C26_EntityRoundTrip ==
    /\ serverDecoded.done => serverDecoded.text = literal
    /\ clientDecoded.done => clientDecoded.text = literal

(***************************************************************************)
(* Claims about the two transcript routes                                  *)
(***************************************************************************)
\* C29: whatever the interleaving of requests to the two routes for one
\* video, at most one transcript is stored for the video, and a request
\* that finds a transcript stored answers that transcript, having
\* contacted no transport and changed nothing in storage.
C29_AtMostOneTranscript ==
    /\ Cardinality(transcripts) <= 1
    /\ \A h \in Handlers :
          handlers[h].found =>
              /\ handlers[h].pc = "done"
              /\ handlers[h].response.status = "200"
              /\ handlers[h].response.body \in transcripts
              /\ handlers[h].transport = 0
              /\ ~handlers[h].wrote

\* C29 witness: two requests both found no transcript; one stored its
\* transcript, the insert of the other was refused
C29_Witness ==
    \E g, h \in Handlers :
        /\ handlers[g].pc = "done" /\ handlers[g].wrote
        /\ handlers[g].response.status = "200"
        /\ handlers[h].pc = "done" /\ ~handlers[h].found
        /\ handlers[h].response.body = [error |-> "duplicate-key"]
        /\ Cardinality(transcripts) = 1

(***************************************************************************)
(* Claims about the transcript proxy                                       *)
(***************************************************************************)
\* C30: the transcript proxy of the server and of the worker requests
\* upstream only URLs whose host belongs to the video platform; a request
\* for any other URL is answered 400, with no upstream request and with
\* the cache and the limiter left as they were.
C30_UpstreamOnlyPlatformHosts ==
    /\ \A url \in upstreamUrls : HostBelongs(url)
    /\ (proxyAnswer # NoValue /\ ~HostBelongs(proxyAnswer.url)) =>
           /\ proxyAnswer.status = "400"
           /\ ~proxyAnswer.upstream
           /\ proxyAnswer.untouched

(***************************************************************************)
(* Specifications                                                          *)
(***************************************************************************)
ChainSpecInit == ChainInit /\ LimiterIdle /\ CacheIdle /\ RetryIdle /\ RelayIdle /\ PureIdle

ChainSpec == ChainSpecInit /\ [][ChainNext]_vars

LimiterInit ==
    /\ ChainInit /\ cloudflareUrl /\ netlifyUrl
    /\ CacheIdle
    /\ RetryIdle
    /\ RelayIdle
    /\ PureIdle
    /\ \E k \in WarmUps : LimiterStart(AfterCalls(k))

LimiterSpec == LimiterInit /\ [][LimiterNext]_vars

\* timers fire and time passes; calls need not arrive
LimiterFairness ==
    /\ WF_vars(Tick)
    /\ \A c \in Callers : WF_vars(WakeWindow(c)) /\ WF_vars(WakeDelay(c))

LimiterLiveSpec == LimiterSpec /\ LimiterFairness

CacheInit ==
    /\ ChainInit /\ cloudflareUrl /\ netlifyUrl
    /\ RetryIdle
    /\ RelayIdle
    /\ PureIdle
    /\ \E k \in Fills : LimiterStart(Served(k)) /\ CacheStart(k)

CacheSpec == CacheInit /\ [][CacheNext]_vars

\* the call is made right after another request of the client, or long
\* after the last one
RetryInit ==
    /\ ChainInit /\ cloudflareUrl /\ netlifyUrl
    /\ LimiterIdle
    /\ CacheIdle
    /\ RelayIdle
    /\ PureIdle
    /\ \E last \in {0 - Epoch, 0} : RetryStartState(last)

RetrySpec == RetryInit /\ [][RetryNext]_vars

\* the network answers every request and timers fire
RetryFairness ==
    /\ WF_vars(RetryStart)
    /\ WF_vars(RetryLimitWake)
    /\ WF_vars(\E o \in AttemptOutcomes, random \in Randoms : RetryResponse(o, random))
    /\ WF_vars(RetryBackoffWake)
    /\ WF_vars(RetryTick)

RetryLiveSpec == RetrySpec /\ RetryFairness

RelayInit ==
    /\ ChainInit /\ cloudflareUrl /\ netlifyUrl
    /\ LimiterIdle
    /\ CacheIdle
    /\ RetryIdle
    /\ RelayIdle
    /\ PureIdle

RelaySpec == RelayInit /\ [][RelayNext]_vars

\* no request anywhere
EngineIdle ==
    /\ ChainInit /\ cloudflareUrl /\ netlifyUrl
    /\ LimiterIdle
    /\ CacheIdle
    /\ RetryIdle
    /\ RelayIdle

SelectorSpecInit == EngineIdle /\ SelectorInit /\ ResolverIdle /\ ParserIdle /\ EntityIdle /\ StoreIdle /\ GuardIdle

SelectorSpec == SelectorSpecInit /\ [][SelectorNext]_vars

ResolverSpecInit == EngineIdle /\ SelectorIdle /\ ResolverInit /\ ParserIdle /\ EntityIdle /\ StoreIdle /\ GuardIdle

ResolverSpec == ResolverSpecInit /\ [][ResolverNext]_vars

ParserSpecInit == EngineIdle /\ SelectorIdle /\ ResolverIdle /\ ParserInit /\ EntityIdle /\ StoreIdle /\ GuardIdle

ParserSpec == ParserSpecInit /\ [][ParserNext]_vars

EntitySpecInit ==
    EngineIdle /\ SelectorIdle /\ ResolverIdle /\ ParserIdle /\ EntityInit /\ StoreIdle
    /\ GuardIdle

EntitySpec == EntitySpecInit /\ [][EntityNext]_vars

StoreSpecInit ==
    /\ EngineIdle /\ SelectorIdle /\ ResolverIdle /\ ParserIdle /\ EntityIdle
    /\ StoreIdle /\ GuardIdle

StoreSpec == StoreSpecInit /\ [][StoreNext]_vars

GuardSpecInit ==
    /\ EngineIdle /\ SelectorIdle /\ ResolverIdle /\ ParserIdle /\ EntityIdle
    /\ StoreIdle /\ GuardIdle

GuardSpec == GuardSpecInit /\ [][GuardNext]_vars

====
